---------------------------- MODULE Spec2Model ----------------------------
(***************************************************************************)
(* Model of the tool-warning pipeline of openclaw:                         *)
(*   - warning routing and fingerprint rate limiting                       *)
(*     (auto-reply/reply/warning-routing.ts, here src/unnamed/part_002)    *)
(*   - the turn-outcome payload builder                                    *)
(*     (src/agents/pi-embedded-runner/run/payloads.ts)                     *)
(*                                                                         *)
(* JavaScript strings are sequences of UTF-16 code units.  undefined /     *)
(* absent optional values are the empty sequence <<>>, a present value v   *)
(* is <<v>>.  Date.now() is the variable now, counted in milliseconds      *)
(* from process start, and never decreases.                                *)
(***************************************************************************)
EXTENDS Integers, Sequences, FiniteSets, TLC

VARIABLES
    warningFingerprintSeenAt, \* Map<string, number>: entries in insertion order
    now,                      \* Date.now()
    calls,                    \* the processWarningEvents invocations in flight
    started,                  \* number of invocations started so far (limiter specification)
    lastPassed,               \* history: fingerprint -> time it last passed the limiter
    evictedSince,             \* history: fingerprints pruned since they last passed
    buildArgs,                \* the argument of buildEmbeddedRunPayloads
    rebuildArgs,              \* the argument of a second call of it (fingerprint specification)
    buildResult               \* what the calls of buildEmbeddedRunPayloads returned, in order

vars ==
    <<warningFingerprintSeenAt, now, calls, started, lastPassed, evictedSince,
      buildArgs, rebuildArgs, buildResult>>

-----------------------------------------------------------------------------
(* Bounds of the model *)

MaxLimiterCalls == 2   \* invocations per behaviour, limiter specification
MaxWarnings == 2       \* warnings per invocation
MaxAssistantTexts == 1 \* assistant texts per turn

-----------------------------------------------------------------------------
(* JavaScript string primitives *)

\* White space and line terminators removed by String.prototype.trim
IsTrimChar(c) ==
    \/ c = 32 \/ (9 <= c /\ c <= 13) \/ c = 160 \/ c = 5760
    \/ (8192 <= c /\ c <= 8202) \/ c = 8232 \/ c = 8233 \/ c = 8239 \/ c = 8287
    \/ c = 12288 \/ c = 65279

TrimStart(s) ==
    IF \A i \in 1..Len(s) : IsTrimChar(s[i]) THEN <<>>
    ELSE SubSeq(s, CHOOSE i \in 1..Len(s) :
                       /\ ~IsTrimChar(s[i])
                       /\ \A j \in 1..(i - 1) : IsTrimChar(s[j]), Len(s))

TrimEnd(s) ==
    IF \A i \in 1..Len(s) : IsTrimChar(s[i]) THEN <<>>
    ELSE SubSeq(s, 1, CHOOSE i \in 1..Len(s) :
                          /\ ~IsTrimChar(s[i])
                          /\ \A j \in (i + 1)..Len(s) : IsTrimChar(s[j]))

\* String.prototype.trim
Trim(s) == TrimEnd(TrimStart(s))

\* String.prototype.toLowerCase on the ASCII letters
ToLowerCase(s) == [i \in 1..Len(s) |-> IF s[i] \in 65..90 THEN s[i] + 32 ELSE s[i]]

\* x ?? d on an optional value
OrElse(x, d) == IF x = <<>> THEN d ELSE x[1]

\* String literals of the source, as code units
StrExec == <<101, 120, 101, 99>>          \* "exec"
StrBash == <<98, 97, 115, 104>>           \* "bash"
StrColon == <<58>>                        \* ":"
TruthyTokens ==                           \* ["1", "true", "yes", "on"]
    {<<49>>, <<116, 114, 117, 101>>, <<121, 101, 115>>, <<111, 110>>}
FalsyTokens ==                            \* ["0", "false", "no", "off"]
    {<<48>>, <<102, 97, 108, 115, 101>>, <<110, 111>>, <<111, 102, 102>>}

-----------------------------------------------------------------------------
(* The fingerprint cache: warningFingerprintSeenAt *)

DEFAULT_WARNING_DEDUPE_WINDOW_MS == 10 * 60 * 1000
WARNING_FINGERPRINT_CACHE_LIMIT == 1024

\* Map.prototype.has / get / set / delete on the insertion-ordered entry list
MapHas(m, key) == \E i \in 1..Len(m) : m[i].key = key
MapGet(m, key) ==
    IF MapHas(m, key) THEN <<m[CHOOSE i \in 1..Len(m) : m[i].key = key].ts>> ELSE <<>>
MapSet(m, key, ts) ==
    IF MapHas(m, key)
    THEN [m EXCEPT ![CHOOSE i \in 1..Len(m) : m[i].key = key].ts = ts]
    ELSE Append(m, [key |-> key, ts |-> ts])
MapDeleteAll(m, keys) == SelectSeq(m, LAMBDA e : e.key \notin keys)
MapKeys(m) == {m[i].key : i \in 1..Len(m)}

\* Array.prototype.toSorted((a, b) => a[1] - b[1]) is stable: the index of the
\* entry that sorts first among those not in `taken` (oldest timestamp, ties in
\* insertion order)
FirstSorted(m, taken) ==
    CHOOSE j \in (1..Len(m)) \ taken :
        \A k \in (1..Len(m)) \ taken :
            \/ m[j].ts < m[k].ts
            \/ (m[j].ts = m[k].ts /\ j <= k)

\* the indices of sorted[0] .. sorted[excess - 1]
RECURSIVE SortedPrefix(_, _, _)
SortedPrefix(m, excess, taken) ==
    IF excess = 0 \/ Cardinality(taken) = Len(m) THEN taken
    ELSE SortedPrefix(m, excess - 1, taken \cup {FirstSorted(m, taken)})

\* sorted[i]?.[0] for 0 <= i < excess
OldestKeys(m, excess) == {m[j].key : j \in SortedPrefix(m, excess, {})}

\* if (key) { delete }: the empty string is falsy
IsTruthyKey(key) == key # <<>>

\* The second loop of pruneWarningFingerprintCache: in insertion order, delete the
\* entries older than six default windows, stopping once the size is within the
\* limit.  Entry j goes iff it is old and fewer than (size - limit) old entries
\* precede it.
SweepOld(m, at) ==
    LET old(j) == at - m[j].ts > DEFAULT_WARNING_DEDUPE_WINDOW_MS * 6
        need == Len(m) - WARNING_FINGERPRINT_CACHE_LIMIT
        gone == {j \in 1..Len(m) :
                    /\ old(j)
                    /\ Cardinality({k \in 1..(j - 1) : old(k)}) < need}
    IN  MapDeleteAll(m, {m[j].key : j \in gone})

pruneWarningFingerprintCache(m, at) ==
    IF Len(m) <= WARNING_FINGERPRINT_CACHE_LIMIT THEN m
    ELSE LET excess == Len(m) - WARNING_FINGERPRINT_CACHE_LIMIT
             victims == {k \in OldestKeys(m, excess) : IsTruthyKey(k)}
             m1 == MapDeleteAll(m, victims)
         IN  IF Len(m1) > WARNING_FINGERPRINT_CACHE_LIMIT THEN SweepOld(m1, at) ELSE m1

\* Faulty variant: the comparison with the window is inverted
RateLimitInvertedWindow(m, fingerprint, windowMs, at) ==
    LET lastSeen == MapGet(m, fingerprint)
    IN  IF lastSeen # <<>> /\ at - lastSeen[1] >= windowMs
        THEN [emit |-> FALSE, cache |-> m]
        ELSE [emit |-> TRUE,
              cache |-> pruneWarningFingerprintCache(MapSet(m, fingerprint, at), at)]

\* Faulty variant: a warning exactly one window after the last one is still limited
RateLimitInclusiveWindow(m, fingerprint, windowMs, at) ==
    LET lastSeen == MapGet(m, fingerprint)
    IN  IF lastSeen # <<>> /\ at - lastSeen[1] <= windowMs
        THEN [emit |-> FALSE, cache |-> m]
        ELSE [emit |-> TRUE,
              cache |-> pruneWarningFingerprintCache(MapSet(m, fingerprint, at), at)]

\* Faulty variant: the time of a warning that passes is not recorded by the check
RateLimitWithoutRecord(m, fingerprint, windowMs, at) ==
    LET lastSeen == MapGet(m, fingerprint)
    IN  IF lastSeen # <<>> /\ at - lastSeen[1] < windowMs
        THEN [emit |-> FALSE, cache |-> m]
        ELSE [emit |-> TRUE, cache |-> m]

\* Faulty variant: a warning that is skipped restarts the window of its fingerprint
RateLimitSlidingWindow(m, fingerprint, windowMs, at) ==
    LET lastSeen == MapGet(m, fingerprint)
    IN  IF lastSeen # <<>> /\ at - lastSeen[1] < windowMs
        THEN [emit |-> FALSE, cache |-> MapSet(m, fingerprint, at)]
        ELSE [emit |-> TRUE,
              cache |-> pruneWarningFingerprintCache(MapSet(m, fingerprint, at), at)]

\* The outcome of shouldEmitByFingerprintRateLimit at time `at`: whether the
\* warning may be emitted, and the cache it leaves
shouldEmitByFingerprintRateLimit(m, fingerprint, windowMs, at) ==
    LET lastSeen == MapGet(m, fingerprint)
    IN  IF lastSeen # <<>> /\ at - lastSeen[1] < windowMs
        THEN [emit |-> FALSE, cache |-> m]
        ELSE [emit |-> TRUE,
              cache |-> pruneWarningFingerprintCache(MapSet(m, fingerprint, at), at)]

-----------------------------------------------------------------------------
(* Policy resolution *)

\* Channel names of the source and its tests, as code units
StrTelegram == <<116, 101, 108, 101, 103, 114, 97, 109>>      \* "telegram"
StrWebchat == <<119, 101, 98, 99, 104, 97, 116>>              \* "webchat"

\* isRoutableChannel of route-reply.ts, as the router's tests stand in for it:
\* Boolean(channel && channel !== "webchat")
isRoutableChannel(channel) == channel # <<>> /\ channel # StrWebchat

\* Faulty variant: the heartbeat target and destination are not consulted
RouteIgnoringHeartbeat(cfg) ==
    LET targetRaw == cfg.target
        toRaw == cfg.to
    IN  IF targetRaw = <<>> \/ toRaw = <<>> THEN <<>>
        ELSE LET channel == ToLowerCase(Trim(targetRaw[1]))
                 to == Trim(toRaw[1])
             IN  IF ~isRoutableChannel(channel) \/ to = <<>> THEN <<>>
                 ELSE <<[channel |-> channel, to |-> to]>>

resolveWarningRoute(cfg) ==
    LET targetRaw == IF cfg.target # <<>> THEN cfg.target ELSE cfg.hbTarget
        toRaw == IF cfg.to # <<>> THEN cfg.to ELSE cfg.hbTo
    IN  IF targetRaw = <<>> \/ toRaw = <<>> THEN <<>>
        ELSE LET channel == ToLowerCase(Trim(targetRaw[1]))
                 to == Trim(toRaw[1])
             IN  IF ~isRoutableChannel(channel) \/ to = <<>> THEN <<>>
                 ELSE <<[channel |-> channel, to |-> to]>>

\* process.env[name] is `env`: absent, or a string
parseOptionalBoolEnv(env) ==
    IF env = <<>> THEN <<>>
    ELSE LET raw == ToLowerCase(Trim(env[1]))
         IN  IF raw = <<>> THEN <<>>
             ELSE IF raw \in TruthyTokens THEN <<TRUE>>
             ELSE IF raw \in FalsyTokens THEN <<FALSE>>
             ELSE <<>>

MathMax(a, b) == IF a >= b THEN a ELSE b

\* Faulty variant: the configuration takes precedence over the environment
PolicyConfigFirst(cfg, env) ==
    LET envEnabled == parseOptionalBoolEnv(env)
    IN  [enabled |-> IF cfg.enabled # <<>> THEN cfg.enabled[1] ELSE OrElse(envEnabled, FALSE),
         route |-> resolveWarningRoute(cfg),
         execOnly |-> OrElse(cfg.execOnly, TRUE),
         fallbackToUserChat |-> OrElse(cfg.fallbackToUserChat, TRUE),
         dedupeWindowMs |->
             MathMax(1000, OrElse(cfg.dedupeWindowMs, DEFAULT_WARNING_DEDUPE_WINDOW_MS)),
         suppressToolErrors |-> OrElse(cfg.suppressToolErrors, FALSE)]

resolveWarningPolicy(cfg, env) ==
    LET envEnabled == parseOptionalBoolEnv(env)
    IN  [enabled |-> IF envEnabled # <<>> THEN envEnabled[1] ELSE OrElse(cfg.enabled, FALSE),
         route |-> resolveWarningRoute(cfg),
         execOnly |-> OrElse(cfg.execOnly, TRUE),
         fallbackToUserChat |-> OrElse(cfg.fallbackToUserChat, TRUE),
         dedupeWindowMs |->
             MathMax(1000, OrElse(cfg.dedupeWindowMs, DEFAULT_WARNING_DEDUPE_WINDOW_MS)),
         suppressToolErrors |-> OrElse(cfg.suppressToolErrors, FALSE)]

isExecLikeWarning(warning) ==
    LET normalized == ToLowerCase(Trim(warning.toolName))
    IN  normalized = StrExec \/ normalized = StrBash

shouldRouteWarningToWarningsChannel(warning, policy) ==
    IF policy.route = <<>> THEN FALSE
    ELSE IF ~policy.execOnly THEN TRUE
    ELSE isExecLikeWarning(warning)

\* Faulty variant: a delivered warning still falls back to the user chat
UserChatIgnoringSuccess(policy, warning, warningRouteAttempted, warningRouteSucceeded) ==
    IF policy.suppressToolErrors THEN FALSE
    ELSE IF ~shouldRouteWarningToWarningsChannel(warning, policy) THEN TRUE
    ELSE policy.fallbackToUserChat

\* Faulty variant: a failed delivery falls back whatever fallbackToUserChat says
UserChatOnEveryFailure(policy, warning, warningRouteAttempted, warningRouteSucceeded) ==
    IF policy.suppressToolErrors THEN FALSE
    ELSE IF ~shouldRouteWarningToWarningsChannel(warning, policy) THEN TRUE
    ELSE IF ~warningRouteAttempted THEN policy.fallbackToUserChat
    ELSE IF warningRouteSucceeded THEN FALSE
    ELSE TRUE

\* Faulty variant: suppressToolErrors is consulted only for warnings that are
\* eligible for the route
UserChatSuppressionLast(policy, warning, warningRouteAttempted, warningRouteSucceeded) ==
    IF ~shouldRouteWarningToWarningsChannel(warning, policy) THEN TRUE
    ELSE IF policy.suppressToolErrors THEN FALSE
    ELSE IF ~warningRouteAttempted THEN policy.fallbackToUserChat
    ELSE IF warningRouteSucceeded THEN FALSE
    ELSE policy.fallbackToUserChat

\* Faulty variant: a warning that is not eligible for the route falls back to user
\* chat only when fallbackToUserChat is on
UserChatFallbackOnly(policy, warning, warningRouteAttempted, warningRouteSucceeded) ==
    /\ ~policy.suppressToolErrors
    /\ ~(warningRouteAttempted /\ warningRouteSucceeded)
    /\ policy.fallbackToUserChat

shouldRouteWarningToUserChat(policy, warning, warningRouteAttempted, warningRouteSucceeded) ==
    IF policy.suppressToolErrors THEN FALSE
    ELSE IF ~shouldRouteWarningToWarningsChannel(warning, policy) THEN TRUE
    ELSE IF ~warningRouteAttempted THEN policy.fallbackToUserChat
    ELSE IF warningRouteSucceeded THEN FALSE
    ELSE policy.fallbackToUserChat

-----------------------------------------------------------------------------
(* processWarningEvents *)

CallIds == {1, 2}

\* the fingerprints whose history is recorded in lastPassed / evictedSince
FpEmpty == <<>>                    \* ""
FpA == <<97>>                      \* "a"
FpB == <<98>>                      \* "b"
TrackedFingerprints == {FpEmpty, FpA, FpB}

NoPolicy ==
    [enabled |-> FALSE, route |-> <<>>, execOnly |-> TRUE, fallbackToUserChat |-> TRUE,
     dedupeWindowMs |-> DEFAULT_WARNING_DEDUPE_WINDOW_MS, suppressToolErrors |-> FALSE]

IdleCall ==
    [pc |-> "idle", cfg |-> <<>>, env |-> <<>>, policy |-> NoPolicy, warnings |-> <<>>,
     idx |-> 0, seenWarnings |-> {}, userPayloads |-> <<>>, log |-> <<>>]

\* One record of the log of an invocation: what the loop did with warning number i
LogEntry(i, warning, text, outcome, at) ==
    [i |-> i, outcome |-> outcome, at |-> at,
     lastSeen |-> <<>>, seenAfter |-> <<>>, sizeAfter |-> 0,
     prevPassed |-> <<>>, evicted |-> FALSE,
     shouldRoute |-> FALSE, routeAttempted |-> FALSE, returned |-> FALSE,
     routed |-> FALSE, toUser |-> FALSE]

\* The state threaded through the loop of one invocation
LoopState(call, cache, lp, ev) ==
    [pc |-> "run", idx |-> call.idx, seenWarnings |-> call.seenWarnings,
     userPayloads |-> call.userPayloads, log |-> call.log,
     cache |-> cache, lastPassed |-> lp, evictedSince |-> ev]

\* userPayloads.push({ text, isError: true })
ErrorPayload(text) == [text |-> text, isError |-> TRUE]

\* Faulty variant: the legacy loop tells warnings apart by fingerprint and text
LegacyStepByFingerprint(st, warning, i, at) ==
    LET text == Trim(warning.text)
        warningKey == warning.fingerprint \o StrColon \o text
    IN  IF text = <<>>
        THEN [st EXCEPT !.log = Append(@, LogEntry(i, warning, text, "skipEmpty", at))]
        ELSE IF warningKey \in st.seenWarnings
        THEN [st EXCEPT !.log = Append(@, LogEntry(i, warning, text, "skipSeen", at))]
        ELSE [st EXCEPT !.seenWarnings = @ \cup {warningKey},
                        !.userPayloads = Append(@, ErrorPayload(text)),
                        !.log = Append(@, [LogEntry(i, warning, text, "legacy", at)
                                              EXCEPT !.toUser = TRUE])]

\* Faulty variant: the legacy loop applies the fingerprint rate limiter
LegacyStepRateLimited(st, warning, i, at) ==
    LET text == Trim(warning.text)
        limit == shouldEmitByFingerprintRateLimit(st.cache, warning.fingerprint,
                                                  DEFAULT_WARNING_DEDUPE_WINDOW_MS, at)
    IN  IF text = <<>>
        THEN [st EXCEPT !.log = Append(@, LogEntry(i, warning, text, "skipEmpty", at))]
        ELSE IF text \in st.seenWarnings
        THEN [st EXCEPT !.log = Append(@, LogEntry(i, warning, text, "skipSeen", at))]
        ELSE IF ~limit.emit
        THEN [st EXCEPT !.seenWarnings = @ \cup {text},
                        !.log = Append(@, LogEntry(i, warning, text, "rateLimited", at))]
        ELSE [st EXCEPT !.seenWarnings = @ \cup {text},
                        !.cache = limit.cache,
                        !.userPayloads = Append(@, ErrorPayload(text)),
                        !.log = Append(@, [LogEntry(i, warning, text, "legacy", at)
                                              EXCEPT !.toUser = TRUE])]

\* Body of the legacy loop (routing disabled) for warning number i
LegacyStep(st, warning, i, at) ==
    LET text == Trim(warning.text)
    IN  IF text = <<>>
        THEN [st EXCEPT !.log = Append(@, LogEntry(i, warning, text, "skipEmpty", at))]
        ELSE IF text \in st.seenWarnings
        THEN [st EXCEPT !.log = Append(@, LogEntry(i, warning, text, "skipSeen", at))]
        ELSE [st EXCEPT !.seenWarnings = @ \cup {text},
                        !.userPayloads = Append(@, ErrorPayload(text)),
                        !.log = Append(@, [LogEntry(i, warning, text, "legacy", at)
                                              EXCEPT !.toUser = TRUE])]

\* Body of the routed loop for warning number i, up to the await of routeReply
\* (pc = "await") or to the end of the body
RoutedStep(st, warning, i, policy, at) ==
    LET text == Trim(warning.text)
        warningKey == warning.fingerprint \o StrColon \o text
        fp == warning.fingerprint
        limit == shouldEmitByFingerprintRateLimit(st.cache, fp, policy.dedupeWindowMs, at)
        tracked == fp \in TrackedFingerprints
        base == [LogEntry(i, warning, text, "rateLimited", at) EXCEPT
                    !.lastSeen = MapGet(st.cache, fp),
                    !.seenAfter = MapGet(limit.cache, fp),
                    !.sizeAfter = Len(limit.cache),
                    !.prevPassed = IF tracked THEN st.lastPassed[fp] ELSE <<>>,
                    !.evicted = fp \in st.evictedSince]
        \* the keys the prune removed (none while the cache is below its limit)
        pruned == IF ~limit.emit \/ Len(st.cache) < WARNING_FINGERPRINT_CACHE_LIMIT
                  THEN {}
                  ELSE (MapKeys(st.cache) \cup {fp}) \ MapKeys(limit.cache)
        shouldRoute == shouldRouteWarningToWarningsChannel(warning, policy)
        toUser == shouldRouteWarningToUserChat(policy, warning, FALSE, FALSE)
        passed == [st EXCEPT
                    !.seenWarnings = @ \cup {warningKey},
                    !.cache = limit.cache,
                    !.lastPassed = IF tracked THEN [@ EXCEPT ![fp] = <<at>>] ELSE @,
                    !.evictedSince = ((@ \ {fp}) \cup (pruned \cap TrackedFingerprints))]
    IN  IF text = <<>>
        THEN [st EXCEPT !.log = Append(@, LogEntry(i, warning, text, "skipEmpty", at))]
        ELSE IF warningKey \in st.seenWarnings
        THEN [st EXCEPT !.log = Append(@, LogEntry(i, warning, text, "skipSeen", at))]
        ELSE IF ~limit.emit
        THEN [st EXCEPT !.seenWarnings = @ \cup {warningKey},
                        !.log = Append(@, base)]
        ELSE IF shouldRoute /\ policy.route # <<>>
        THEN [passed EXCEPT
                !.pc = "await",
                !.idx = i,
                !.log = Append(@, [base EXCEPT !.outcome = "processed",
                                               !.shouldRoute = shouldRoute,
                                               !.routeAttempted = TRUE])]
        ELSE [passed EXCEPT
                !.userPayloads = IF toUser THEN Append(@, ErrorPayload(text)) ELSE @,
                !.log = Append(@, [base EXCEPT !.outcome = "processed",
                                               !.shouldRoute = shouldRoute,
                                               !.toUser = toUser])]

\* The loop body for warning number i of the invocation
LoopStep(st, call, i, at) ==
    IF call.policy.enabled
    THEN RoutedStep(st, call.warnings[i], i, call.policy, at)
    ELSE LegacyStep(st, call.warnings[i], i, at)

\* Faulty variant: the loop does not wait for routeReply before it goes on to
\* the next warning
RECURSIVE RunLoopWithoutAwait(_, _, _, _, _)
RunLoopWithoutAwait(st, call, lo, hi, at) ==
    IF lo > hi THEN st
    ELSE IF lo = hi THEN LoopStep(st, call, lo, at)
    ELSE LET mid == (lo + hi) \div 2
         IN  RunLoopWithoutAwait(RunLoopWithoutAwait(st, call, lo, mid, at),
                                 call, mid + 1, hi, at)

\* for (const warning of params.warnings), warnings lo..hi in order, until the loop
\* suspends at an await
RECURSIVE RunLoop(_, _, _, _, _)
RunLoop(st, call, lo, hi, at) ==
    IF lo > hi THEN st
    ELSE IF lo = hi THEN LoopStep(st, call, lo, at)
    ELSE LET mid == (lo + hi) \div 2
             left == RunLoop(st, call, lo, mid, at)
         IN  IF left.pc = "run" THEN RunLoop(left, call, mid + 1, hi, at) ELSE left

\* Faulty variant: the record of a warning that was shown nowhere is withdrawn
AfterRouteReplyForgetsUnshown(st, call, ok) ==
    LET n == Len(st.log)
        entry == st.log[n]
        warning == call.warnings[st.idx]
        toUser == shouldRouteWarningToUserChat(call.policy, warning, TRUE, ok)
    IN  [st EXCEPT
            !.pc = "run",
            !.cache = IF ok \/ toUser THEN @ ELSE MapDeleteAll(@, {warning.fingerprint}),
            !.userPayloads = IF toUser THEN Append(@, ErrorPayload(Trim(warning.text))) ELSE @,
            !.log = [@ EXCEPT ![n] = [entry EXCEPT !.returned = TRUE, !.routed = ok,
                                                   !.toUser = toUser]]]

\* The continuation after `await routeReply(...)` resolved with { ok }
AfterRouteReply(st, call, ok) ==
    LET n == Len(st.log)
        entry == st.log[n]
        warning == call.warnings[st.idx]
        toUser == shouldRouteWarningToUserChat(call.policy, warning, TRUE, ok)
    IN  [st EXCEPT
            !.pc = "run",
            !.userPayloads = IF toUser THEN Append(@, ErrorPayload(Trim(warning.text))) ELSE @,
            !.log = [@ EXCEPT ![n] = [entry EXCEPT !.returned = TRUE, !.routed = ok,
                                                   !.toUser = toUser]]]

\* The record of the invocation after the loop ran up to an await or to the end
Settle(call, st) ==
    [call EXCEPT
        !.pc = IF st.pc = "await" THEN "await" ELSE "done",
        !.idx = st.idx,
        !.seenWarnings = st.seenWarnings,
        !.userPayloads = st.userPayloads,
        !.log = st.log]

-----------------------------------------------------------------------------
(* The payload builder: helpers imported by payloads.ts *)

\* String.prototype.includes
Includes(s, sub) ==
    \E i \in 1..(Len(s) - Len(sub) + 1) : SubSeq(s, i, i + Len(sub) - 1) = sub

\* the first position of `sub` in s, 0 when there is none (indexOf, 1-based)
IndexOf(s, sub) ==
    IF ~Includes(s, sub) THEN 0
    ELSE CHOOSE i \in 1..(Len(s) - Len(sub) + 1) :
            /\ SubSeq(s, i, i + Len(sub) - 1) = sub
            /\ \A j \in 1..(i - 1) : SubSeq(s, j, j + Len(sub) - 1) # sub

\* s with every occurrence of the non-empty `sub` removed, left to right
RECURSIVE RemoveAll(_, _)
RemoveAll(s, sub) ==
    LET i == IndexOf(s, sub)
    IN  IF i = 0 THEN s
        ELSE SubSeq(s, 1, i - 1) \o RemoveAll(SubSeq(s, i + Len(sub), Len(s)), sub)

\* s.replace(/\s+/g, " ")
CollapseWhitespace(s) ==
    LET kept == SelectSeq([i \in 1..Len(s) |-> i],
                    LAMBDA i : ~(IsTrimChar(s[i]) /\ i > 1 /\ IsTrimChar(s[i - 1])))
    IN  [k \in 1..Len(kept) |-> IF IsTrimChar(s[kept[k]]) THEN 32 ELSE s[kept[k]]]

\* Code units of emoji and their presentation selectors: the warning sign, the
\* variation selector and the surrogates of the pictographs
IsEmojiUnit(c) == c = 9888 \/ c = 65039 \/ (55296 <= c /\ c <= 57343)

\* normalizeTextForComparison of pi-embedded-helpers: trimmed, lower-cased,
\* without emoji, white space collapsed
normalizeTextForComparison(text) ==
    Trim(CollapseWhitespace(SelectSeq(ToLowerCase(Trim(text)), LAMBDA c : ~IsEmojiUnit(c))))

\* isLikelyMutatingToolName of tool-mutation.ts: the known mutating tool names
MutatingToolNames ==
    {<<119, 114, 105, 116, 101>>, <<101, 100, 105, 116>>, <<109, 101, 115, 115, 97, 103, 101>>, <<115, 101, 115, 115, 105, 111, 110, 95, 115, 116, 97, 116, 117, 115>>}
isLikelyMutatingToolName(toolName) == ToLowerCase(Trim(toolName)) \in MutatingToolNames

\* the first letter in upper case
Capitalize(s) ==
    IF s # <<>> /\ s[1] \in 97..122 THEN <<s[1] - 32>> \o Tail(s) ELSE s

StrToolEmoji == <<55357, 57056, 65039>>   \* the tool emoji of the summaries
StrBacktick == <<96>>                     \* "`"
StrColonSpace == <<58, 32>>               \* ": "

\* formatToolAggregate of tool-meta: emoji, label of the tool and its metas
formatToolAggregate(toolName, metas, markdown) ==
    LET label == Capitalize(Trim(toolName))
        shown(m) == IF markdown THEN StrBacktick \o m \o StrBacktick ELSE m
    IN  StrToolEmoji \o <<32>> \o label
            \o (IF metas = <<>> THEN <<>> ELSE StrColonSpace \o shown(metas[1]))

StrAudioTag == <<91, 91, 97, 117, 100, 105, 111, 95, 97, 115, 95, 118, 111, 105, 99, 101, 93, 93>>      \* "[[audio_as_voice]]"
StrReplyCurrentTag == <<91, 91, 114, 101, 112, 108, 121, 95, 116, 111, 95, 99, 117, 114, 114, 101, 110, 116, 93, 93>>  \* "[[reply_to_current]]"
StrMediaPrefix == <<77, 69, 68, 73, 65, 58>>              \* "MEDIA:"

\* the code units from position i up to the next white space
TokenAt(s, i) ==
    LET stops == {j \in i..Len(s) : IsTrimChar(s[j])}
        end == IF stops = {} THEN Len(s)
               ELSE (CHOOSE j \in stops : \A k \in stops : j <= k) - 1
    IN  SubSeq(s, i, end)

\* parseReplyDirectives of reply-directives: the directives embedded in a text
\* and the text without them
parseReplyDirectives(raw) ==
    LET m == IndexOf(raw, StrMediaPrefix)
        url == IF m = 0 THEN <<>> ELSE TokenAt(raw, m + Len(StrMediaPrefix))
        noMedia == IF m = 0 THEN raw ELSE RemoveAll(raw, StrMediaPrefix \o url)
        cleaned == RemoveAll(RemoveAll(noMedia, StrAudioTag), StrReplyCurrentTag)
    IN  [text |-> Trim(cleaned),
         mediaUrls |-> IF url = <<>> THEN <<>> ELSE <<url>>,
         audioAsVoice |-> Includes(raw, StrAudioTag),
         replyToId |-> <<>>,
         replyToTag |-> Includes(raw, StrReplyCurrentTag),
         replyToCurrent |-> Includes(raw, StrReplyCurrentTag)]

SILENT_REPLY_TOKEN == <<78, 79, 95, 82, 69, 80, 76, 89>>        \* "NO_REPLY"
\* isSilentReplyText of tokens.ts
isSilentReplyText(text, token) == Trim(text) = token

\* An AssistantMessage, the fields the builder reads: stopReason, errorMessage
\* (optional) and the content blocks [type, text]
AssistantMessage(stopReason, errorMessage, content) ==
    [stopReason |-> stopReason, errorMessage |-> errorMessage, content |-> content]

\* the texts of the content blocks of one type, trimmed and joined by newlines
RECURSIVE JoinBlocks(_, _)
JoinBlocks(content, type) ==
    IF content = <<>> THEN <<>>
    ELSE LET rest == JoinBlocks(Tail(content), type)
             own == IF Head(content).type = type THEN Trim(Head(content).text) ELSE <<>>
         IN  IF own = <<>> THEN rest
             ELSE IF rest = <<>> THEN own
             ELSE own \o <<10>> \o rest

\* extractAssistantText / extractAssistantThinking of pi-embedded-utils
extractAssistantText(msg) == Trim(JoinBlocks(msg.content, "text"))
extractAssistantThinking(msg) == Trim(JoinBlocks(msg.content, "thinking"))

StrReasoningPrefix == <<82, 101, 97, 115, 111, 110, 105, 110, 103, 58, 10, 95>>   \* "Reasoning:\n_"
\* formatReasoningMessage of pi-embedded-utils
formatReasoningMessage(text) ==
    IF Trim(text) = <<>> THEN <<>> ELSE StrReasoningPrefix \o Trim(text) \o <<95>>

StrErrorKey == <<34, 101, 114, 114, 111, 114, 34>>              \* "\"error\""
StrBilling == <<98, 105, 108, 108, 105, 110, 103>>                 \* "billing"
StrOverloaded == <<111, 118, 101, 114, 108, 111, 97, 100, 101, 100>>           \* "overloaded"
StrUnknownError == <<76, 76, 77, 32, 114, 101, 113, 117, 101, 115, 116, 32, 102, 97, 105, 108, 101, 100, 32, 119, 105, 116, 104, 32, 97, 110, 32, 117, 110, 107, 110, 111, 119, 110, 32, 101, 114, 114, 111, 114, 46>>
StrOverloadedMessage == <<84, 104, 101, 32, 65, 73, 32, 115, 101, 114, 118, 105, 99, 101, 32, 105, 115, 32, 116, 101, 109, 112, 111, 114, 97, 114, 105, 108, 121, 32, 111, 118, 101, 114, 108, 111, 97, 100, 101, 100, 46, 32, 80, 108, 101, 97, 115, 101, 32, 116, 114, 121, 32, 97, 103, 97, 105, 110, 32, 105, 110, 32, 97, 32, 109, 111, 109, 101, 110, 116, 46>>
StrLlmError == <<76, 76, 77, 32, 101, 114, 114, 111, 114, 58, 32>>            \* "LLM error: "
BILLING_ERROR_USER_MESSAGE == <<9888, 65039, 32>> \o <<65, 80, 73, 32, 112, 114, 111, 118, 105, 100, 101, 114, 32, 114, 101, 116, 117, 114, 110, 101, 100, 32, 97, 32, 98, 105, 108, 108, 105, 110, 103, 32, 101, 114, 114, 111, 114, 46>>
genericErrorText == <<84, 104, 101, 32, 65, 73, 32, 115, 101, 114, 118, 105, 99, 101, 32, 114, 101, 116, 117, 114, 110, 101, 100, 32, 97, 110, 32, 101, 114, 114, 111, 114, 46, 32, 80, 108, 101, 97, 115, 101, 32, 116, 114, 121, 32, 97, 103, 97, 105, 110, 46>>

\* isRawApiErrorPayload of pi-embedded-helpers: the text is a JSON error payload
isRawApiErrorPayload(raw) ==
    LET t == Trim(raw)
    IN  t # <<>> /\ t[1] = 123 /\ t[Len(t)] = 125 /\ Includes(t, StrErrorKey)

\* getApiErrorPayloadFingerprint of pi-embedded-helpers: the payload in a form
\* that does not depend on its layout, null (<<>>) for any other text
getApiErrorPayloadFingerprint(raw) ==
    IF isRawApiErrorPayload(raw)
    THEN <<SelectSeq(raw, LAMBDA c : ~IsTrimChar(c))>>
    ELSE <<>>

\* formatRawAssistantErrorForUi of pi-embedded-helpers
formatRawAssistantErrorForUi(raw) ==
    LET t == Trim(raw)
    IN  IF t = <<>> THEN StrUnknownError
        ELSE IF isRawApiErrorPayload(t)
        THEN StrLlmError \o getApiErrorPayloadFingerprint(t)[1]
        ELSE t

\* formatBillingErrorMessage of pi-embedded-helpers: the billing sentence, with
\* the provider when it is known
formatBillingErrorMessage(provider) ==
    IF provider = <<>> THEN BILLING_ERROR_USER_MESSAGE
    ELSE BILLING_ERROR_USER_MESSAGE \o <<32, 40>> \o provider[1] \o <<41>>

\* formatAssistantErrorText of pi-embedded-helpers: the message shown for a turn
\* that ended in an error, undefined (<<>>) for any other turn
formatAssistantErrorText(msg, provider) ==
    IF msg.stopReason # "error" THEN <<>>
    ELSE LET raw == Trim(OrElse(msg.errorMessage, <<>>))
         IN  IF raw = <<>> THEN <<StrUnknownError>>
             ELSE IF Includes(ToLowerCase(raw), StrBilling)
             THEN <<formatBillingErrorMessage(provider)>>
             ELSE IF Includes(ToLowerCase(raw), StrOverloaded)
             THEN <<StrOverloadedMessage>>
             ELSE <<formatRawAssistantErrorForUi(raw)>>

\* crypto.createHash("sha1").update(source).digest("hex"): 40 hexadecimal digits
\* that depend on every code unit of the source and on its position
HexDigit(n) == IF n < 10 THEN 48 + n ELSE 87 + n
Mix[source \in Seq(Nat), i \in Nat] ==
    IF i = 0 THEN Len(source) + 7
    ELSE (Mix[source, i - 1] * 31 + source[i] + i) % 65521
Sha1Hex(source) ==
    LET h == Mix[source, Len(source)]
    IN  [d \in 1..40 |-> HexDigit(((h + 1) * (d + 2) + (h \div 16) * d) % 16)]

-----------------------------------------------------------------------------
(* The payload builder: payloads.ts *)

RECOVERABLE_TOOL_ERROR_KEYWORDS ==
    {<<114, 101, 113, 117, 105, 114, 101, 100>>, <<109, 105, 115, 115, 105, 110, 103>>, <<105, 110, 118, 97, 108, 105, 100>>, <<109, 117, 115, 116, 32, 98, 101>>, <<109, 117, 115, 116, 32, 104, 97, 118, 101>>,
     <<110, 101, 101, 100, 115>>, <<114, 101, 113, 117, 105, 114, 101, 115>>}

\* Faulty variant: the keywords are looked up without lower-casing the error
RecoverableCaseSensitive(error) ==
    \E keyword \in RECOVERABLE_TOOL_ERROR_KEYWORDS : Includes(OrElse(error, <<>>), keyword)

\* `error` is optional
isRecoverableToolError(error) ==
    LET errorLower == ToLowerCase(OrElse(error, <<>>))
    IN  \E keyword \in RECOVERABLE_TOOL_ERROR_KEYWORDS : Includes(errorLower, keyword)

\* Faulty variant: suppressToolErrors silences every tool, mutating ones included
EmitSuppressionFirst(lastToolError, hasUserFacingReply, suppressToolErrors) ==
    LET normalizedTool == ToLowerCase(Trim(lastToolError.toolName))
        isExecLike == normalizedTool = StrExec \/ normalizedTool = StrBash
        isMutating == OrElse(lastToolError.mutatingAction,
                             isLikelyMutatingToolName(lastToolError.toolName))
    IN  IF suppressToolErrors THEN [shouldEmit |-> FALSE, isMutating |-> isMutating]
        ELSE IF isMutating \/ isExecLike
        THEN [shouldEmit |-> TRUE, isMutating |-> isMutating]
        ELSE [shouldEmit |-> ~hasUserFacingReply
                                /\ ~isRecoverableToolError(lastToolError.error),
              isMutating |-> isMutating]

shouldEmitToolWarningEvent(lastToolError, hasUserFacingReply, suppressToolErrors) ==
    LET normalizedTool == ToLowerCase(Trim(lastToolError.toolName))
        isExecLike == normalizedTool = StrExec \/ normalizedTool = StrBash
        isMutating == OrElse(lastToolError.mutatingAction,
                             isLikelyMutatingToolName(lastToolError.toolName))
    IN  IF isMutating \/ isExecLike THEN [shouldEmit |-> TRUE, isMutating |-> isMutating]
        ELSE IF suppressToolErrors THEN [shouldEmit |-> FALSE, isMutating |-> isMutating]
        ELSE [shouldEmit |-> ~hasUserFacingReply
                                /\ ~isRecoverableToolError(lastToolError.error),
              isMutating |-> isMutating]

StrBar == <<124>>                         \* "|"
\* Faulty variant: the fingerprint is always taken from tool name, meta and error
FingerprintOfTuple(lastToolError) ==
    Sha1Hex(lastToolError.toolName \o StrBar
                \o OrElse(lastToolError.meta, <<>>) \o StrBar
                \o OrElse(lastToolError.error, <<>>))

buildWarningFingerprint(lastToolError) ==
    LET source == IF lastToolError.actionFingerprint # <<>>
                  THEN lastToolError.actionFingerprint[1]
                  ELSE lastToolError.toolName \o StrBar
                          \o OrElse(lastToolError.meta, <<>>) \o StrBar
                          \o OrElse(lastToolError.error, <<>>)
    IN  Sha1Hex(source)

\* An element of replyItems
ReplyItem(text, media, isError, audioAsVoice, replyToId, replyToTag, replyToCurrent) ==
    [text |-> text, media |-> media, isError |-> isError, audioAsVoice |-> audioAsVoice,
     replyToId |-> replyToId, replyToTag |-> replyToTag, replyToCurrent |-> replyToCurrent]

\* a reply item made of the result of parseReplyDirectives
DirectiveItem(parsed) ==
    ReplyItem(parsed.text, parsed.mediaUrls, FALSE, parsed.audioAsVoice,
              parsed.replyToId, parsed.replyToTag, parsed.replyToCurrent)

lastAssistantErrored(params) ==
    params.lastAssistant # <<>> /\ params.lastAssistant[1].stopReason = "error"

\* const errorText: optional
ErrorText(params) ==
    IF params.lastAssistant = <<>> THEN <<>>
    ELSE formatAssistantErrorText(params.lastAssistant[1], params.provider)

\* const rawErrorMessage: optional, never the empty string
RawErrorMessage(params) ==
    IF ~lastAssistantErrored(params) THEN <<>>
    ELSE LET trimmed == Trim(OrElse(params.lastAssistant[1].errorMessage, <<>>))
         IN  IF trimmed = <<>> THEN <<>> ELSE <<trimmed>>

\* if (errorText) replyItems.push({ text: errorText, isError: true })
ErrorItems(params) ==
    LET errorText == ErrorText(params)
    IN  IF errorText # <<>> /\ errorText[1] # <<>>
        THEN <<ReplyItem(errorText[1], <<>>, TRUE, FALSE, <<>>, FALSE, FALSE)>>
        ELSE <<>>

RECURSIVE ToolMetaItems(_, _)
ToolMetaItems(toolMetas, useMarkdown) ==
    IF toolMetas = <<>> THEN <<>>
    ELSE LET entry == Head(toolMetas)
             agg == formatToolAggregate(entry.toolName,
                        IF entry.meta # <<>> /\ entry.meta[1] # <<>>
                        THEN <<entry.meta[1]>> ELSE <<>>,
                        useMarkdown)
             parsed == parseReplyDirectives(agg)
         IN  (IF parsed.text # <<>> THEN <<DirectiveItem(parsed)>> ELSE <<>>)
                 \o ToolMetaItems(Tail(toolMetas), useMarkdown)

InlineToolItems(params) ==
    LET inlineToolResults ==
            /\ params.inlineToolResultsAllowed
            /\ params.verboseLevel # "off"
            /\ Len(params.toolMetas) > 0
    IN  IF inlineToolResults
        THEN ToolMetaItems(params.toolMetas, params.toolResultFormat = "markdown")
        ELSE <<>>

ReasoningItems(params) ==
    LET reasoningText ==
            IF params.lastAssistant # <<>> /\ params.reasoningLevel = "on"
            THEN formatReasoningMessage(extractAssistantThinking(params.lastAssistant[1]))
            ELSE <<>>
    IN  IF reasoningText # <<>>
        THEN <<ReplyItem(reasoningText, <<>>, FALSE, FALSE, <<>>, FALSE, FALSE)>>
        ELSE <<>>

\* Faulty variant: only an answer that equals the raw error message or the
\* friendly error text, character by character, is suppressed
SuppressExactOnly(params, text) ==
    /\ lastAssistantErrored(params)
    /\ Trim(text) # <<>>
    /\ \/ RawErrorMessage(params) = <<Trim(text)>>
       \/ ErrorText(params) = <<Trim(text)>>

\* Faulty variant: an answer shaped like an error payload is suppressed whether
\* or not the turn errored
SuppressAnyErrorPayload(params, text) ==
    Trim(text) # <<>> /\ isRawApiErrorPayload(Trim(text))

shouldSuppressRawErrorText(params, text) ==
    LET errorText == ErrorText(params)
        rawErrorMessage == RawErrorMessage(params)
        rawErrorFingerprint ==
            IF rawErrorMessage # <<>>
            THEN getApiErrorPayloadFingerprint(rawErrorMessage[1]) ELSE <<>>
        formattedRawErrorMessage ==
            IF rawErrorMessage # <<>>
            THEN formatRawAssistantErrorForUi(rawErrorMessage[1]) ELSE <<>>
        normalizedFormattedRawErrorMessage ==
            IF formattedRawErrorMessage # <<>>
            THEN normalizeTextForComparison(formattedRawErrorMessage) ELSE <<>>
        normalizedRawErrorText ==
            IF rawErrorMessage # <<>>
            THEN normalizeTextForComparison(rawErrorMessage[1]) ELSE <<>>
        normalizedErrorText ==
            IF errorText # <<>> /\ errorText[1] # <<>>
            THEN normalizeTextForComparison(errorText[1]) ELSE <<>>
        normalizedGenericBillingErrorText ==
            normalizeTextForComparison(BILLING_ERROR_USER_MESSAGE)
        trimmed == Trim(text)
        normalized == normalizeTextForComparison(trimmed)
    IN  IF ~lastAssistantErrored(params) THEN FALSE
        ELSE IF trimmed = <<>> THEN FALSE
        ELSE
            \/ /\ errorText # <<>> /\ errorText[1] # <<>>
               /\ \/ (normalized # <<>> /\ normalizedErrorText # <<>>
                        /\ normalized = normalizedErrorText)
                  \/ trimmed = genericErrorText
                  \/ (normalized # <<>> /\ normalizedGenericBillingErrorText # <<>>
                        /\ normalized = normalizedGenericBillingErrorText)
            \/ (rawErrorMessage # <<>> /\ trimmed = rawErrorMessage[1])
            \/ (formattedRawErrorMessage # <<>> /\ trimmed = formattedRawErrorMessage)
            \/ (normalizedRawErrorText # <<>> /\ normalized # <<>>
                  /\ normalized = normalizedRawErrorText)
            \/ (normalizedFormattedRawErrorMessage # <<>> /\ normalized # <<>>
                  /\ normalized = normalizedFormattedRawErrorMessage)
            \/ /\ rawErrorFingerprint # <<>>
               /\ getApiErrorPayloadFingerprint(trimmed) # <<>>
               /\ getApiErrorPayloadFingerprint(trimmed) = rawErrorFingerprint
            \/ isRawApiErrorPayload(trimmed)

answerTexts(params) ==
    LET fallbackAnswerText ==
            IF params.lastAssistant # <<>>
            THEN extractAssistantText(params.lastAssistant[1]) ELSE <<>>
        candidates ==
            IF Len(params.assistantTexts) > 0 THEN params.assistantTexts
            ELSE IF fallbackAnswerText # <<>> THEN <<fallbackAnswerText>>
            ELSE <<>>
    IN  SelectSeq(candidates, LAMBDA text : ~shouldSuppressRawErrorText(params, text))

RECURSIVE AnswerItems(_)
AnswerItems(texts) ==
    IF texts = <<>> THEN <<>>
    ELSE LET parsed == parseReplyDirectives(Head(texts))
         IN  (IF parsed.text = <<>> /\ parsed.mediaUrls = <<>> /\ ~parsed.audioAsVoice
              THEN <<>> ELSE <<DirectiveItem(parsed)>>)
                 \o AnswerItems(Tail(texts))

\* Faulty variant: the answers are accumulated before the error text, the tool
\* results and the reasoning
ReplyItemsAnswersFirst(params) ==
    AnswerItems(answerTexts(params)) \o ErrorItems(params) \o InlineToolItems(params)
        \o ReasoningItems(params)

\* replyItems when the lastToolError block is reached
ReplyItems(params) ==
    ErrorItems(params) \o InlineToolItems(params) \o ReasoningItems(params)
        \o AnswerItems(answerTexts(params))

\* Faulty variant: a tool-use stop reason no longer rules out a user-facing reply
HasReplyIgnoringToolUse(replyItems, lastAssistant) ==
    /\ Len(replyItems) > 0
    /\ ~(lastAssistant # <<>>
            /\ \E b \in 1..Len(lastAssistant[1].content) :
                    lastAssistant[1].content[b].type = "toolCall")

\* const hasUserFacingReply, of replyItems and params.lastAssistant
hasUserFacingReply(replyItems, lastAssistant) ==
    LET lastAssistantHasToolCalls ==
            /\ lastAssistant # <<>>
            /\ \E b \in 1..Len(lastAssistant[1].content) :
                    lastAssistant[1].content[b].type = "toolCall"
        lastAssistantWasToolUse ==
            lastAssistant # <<>> /\ lastAssistant[1].stopReason = "toolUse"
    IN  Len(replyItems) > 0 /\ ~lastAssistantHasToolCalls /\ ~lastAssistantWasToolUse

StrWarningSign == <<9888, 65039, 32>>     \* the warning sign and a space
StrFailed == <<32, 102, 97, 105, 108, 101, 100>>                  \* " failed"

\* Faulty variant: a warning is a duplicate only of a reply item with exactly its
\* text
WarningItemsExactMatch(params, replyItems, at) ==
    IF params.lastToolError = <<>> THEN <<>>
    ELSE
        LET lastToolError == params.lastToolError[1]
            warningState == shouldEmitToolWarningEvent(
                lastToolError,
                hasUserFacingReply(replyItems, params.lastAssistant),
                OrElse(params.suppressToolErrors, FALSE))
            toolSummary == formatToolAggregate(
                lastToolError.toolName,
                IF lastToolError.meta # <<>> /\ lastToolError.meta[1] # <<>>
                THEN <<lastToolError.meta[1]>> ELSE <<>>,
                params.toolResultFormat = "markdown")
            errorSuffix == IF lastToolError.error # <<>> /\ lastToolError.error[1] # <<>>
                           THEN StrColonSpace \o lastToolError.error[1] ELSE <<>>
            warningText == StrWarningSign \o toolSummary \o StrFailed \o errorSuffix
            duplicateWarning ==
                \E n \in 1..Len(replyItems) : replyItems[n].text = warningText
        IN  IF warningState.shouldEmit /\ ~duplicateWarning
            THEN <<[kind |-> "tool_error", text |-> warningText,
                    toolName |-> lastToolError.toolName, toolSummary |-> toolSummary,
                    errorText |-> lastToolError.error,
                    isMutating |-> warningState.isMutating,
                    fingerprint |-> buildWarningFingerprint(lastToolError),
                    ts |-> at]>>
            ELSE <<>>

\* The lastToolError block: the warning events it pushes
WarningItems(params, replyItems, at) ==
    IF params.lastToolError = <<>> THEN <<>>
    ELSE
        LET lastToolError == params.lastToolError[1]
            warningState == shouldEmitToolWarningEvent(
                lastToolError,
                hasUserFacingReply(replyItems, params.lastAssistant),
                OrElse(params.suppressToolErrors, FALSE))
            toolSummary == formatToolAggregate(
                lastToolError.toolName,
                IF lastToolError.meta # <<>> /\ lastToolError.meta[1] # <<>>
                THEN <<lastToolError.meta[1]>> ELSE <<>>,
                params.toolResultFormat = "markdown")
            errorSuffix == IF lastToolError.error # <<>> /\ lastToolError.error[1] # <<>>
                           THEN StrColonSpace \o lastToolError.error[1] ELSE <<>>
            warningText == StrWarningSign \o toolSummary \o StrFailed \o errorSuffix
            normalizedWarning == normalizeTextForComparison(warningText)
            duplicateWarning ==
                /\ normalizedWarning # <<>>
                /\ \E n \in 1..Len(replyItems) :
                    /\ replyItems[n].text # <<>>
                    /\ Len(normalizeTextForComparison(replyItems[n].text)) > 0
                    /\ normalizeTextForComparison(replyItems[n].text) = normalizedWarning
        IN  IF warningState.shouldEmit /\ ~duplicateWarning
            THEN <<[kind |-> "tool_error", text |-> warningText,
                    toolName |-> lastToolError.toolName, toolSummary |-> toolSummary,
                    errorText |-> lastToolError.error,
                    isMutating |-> warningState.isMutating,
                    fingerprint |-> buildWarningFingerprint(lastToolError),
                    ts |-> at]>>
            ELSE <<>>

\* Faulty variant: replyItems.map(...) without the filter
PayloadsUnfiltered(replyItems) ==
    LET hasAudioAsVoiceTag == \E n \in 1..Len(replyItems) : replyItems[n].audioAsVoice
    IN  [n \in 1..Len(replyItems) |->
            LET item == replyItems[n]
            IN  [text |-> IF Trim(item.text) # <<>> THEN <<Trim(item.text)>> ELSE <<>>,
                 mediaUrls |-> item.media,
                 mediaUrl |-> IF item.media # <<>> THEN <<item.media[1]>> ELSE <<>>,
                 isError |-> item.isError,
                 replyToId |-> item.replyToId,
                 replyToTag |-> item.replyToTag,
                 replyToCurrent |-> item.replyToCurrent,
                 audioAsVoice |-> item.audioAsVoice
                                    \/ (hasAudioAsVoiceTag /\ item.media # <<>>)]]

\* replyItems.map(...).filter(...)
Payloads(replyItems) ==
    LET hasAudioAsVoiceTag == \E n \in 1..Len(replyItems) : replyItems[n].audioAsVoice
        mapped == [n \in 1..Len(replyItems) |->
            LET item == replyItems[n]
            IN  [text |-> IF Trim(item.text) # <<>> THEN <<Trim(item.text)>> ELSE <<>>,
                 mediaUrls |-> item.media,
                 mediaUrl |-> IF item.media # <<>> THEN <<item.media[1]>> ELSE <<>>,
                 isError |-> item.isError,
                 replyToId |-> item.replyToId,
                 replyToTag |-> item.replyToTag,
                 replyToCurrent |-> item.replyToCurrent,
                 audioAsVoice |-> item.audioAsVoice
                                    \/ (hasAudioAsVoiceTag /\ item.media # <<>>)]]
    IN  SelectSeq(mapped, LAMBDA p :
            /\ ~(p.text = <<>> /\ p.mediaUrl = <<>> /\ p.mediaUrls = <<>>)
            /\ ~(p.text # <<>> /\ isSilentReplyText(p.text[1], SILENT_REPLY_TOKEN)))

\* Faulty variant: the warning of the tool failure is also appended to the
\* payloads as an error payload
BuildWithWarningPayload(params, at) ==
    LET replyItems == ReplyItems(params)
        warningItems == WarningItems(params, replyItems, at)
    IN  [payloads |-> Payloads(replyItems \o
                         [n \in 1..Len(warningItems) |->
                             ReplyItem(warningItems[n].text, <<>>, TRUE, FALSE,
                                       <<>>, FALSE, FALSE)]),
         warnings |-> warningItems]

buildEmbeddedRunPayloads(params, at) ==
    LET replyItems == ReplyItems(params)
    IN  [payloads |-> Payloads(replyItems),
         warnings |-> WarningItems(params, replyItems, at)]

-----------------------------------------------------------------------------
(* Inputs *)

StrBashPadded == <<32, 66, 97, 115, 104, 32>>                 \* " Bash "
StrWrite == <<119, 114, 105, 116, 101>>                       \* "write"
StrBrowser == <<98, 114, 111, 119, 115, 101, 114>>            \* "browser"
StrTelegramPadded == <<32, 84, 101, 108, 101, 103, 114, 97, 109>>   \* " Telegram"
StrDest == <<45, 49, 48, 48>>                                 \* "-100"
TextX == <<120>>                                              \* "x"
TextXPadded == <<32, 120, 32>>                                \* " x "
TextY == <<121>>                                              \* "y"
TextBlank == <<32>>                                           \* " "

\* An EmbeddedPiWarningEvent, the fields processWarningEvents reads plus isMutating
Warning(toolName, text, fingerprint, isMutating) ==
    [toolName |-> toolName, text |-> text, fingerprint |-> fingerprint,
     isMutating |-> isMutating]

WarningPool ==
    {Warning(StrExec, TextX, FpA, FALSE),
     Warning(StrBashPadded, TextXPadded, FpB, FALSE),
     Warning(StrWrite, TextY, FpB, TRUE),
     Warning(StrBrowser, TextBlank, FpEmpty, FALSE)}

SeqsUpTo(S, n) == UNION {[1..k -> S] : k \in 0..n}

WarningLists == SeqsUpTo(WarningPool, MaxWarnings)

LimiterWarningPool ==
    {Warning(StrExec, TextX, FpA, FALSE),
     Warning(StrBrowser, TextX, FpEmpty, FALSE),
     Warning(StrWrite, TextY, FpB, TRUE)}

LimiterWarningLists == {<<w>> : w \in LimiterWarningPool}

\* The n-th of the other fingerprints: "f" and one more code unit
OtherFingerprint(n) == <<102, 1000 + n>>

\* The cache as one earlier invocation leaves it at time 0 whose warnings carried
\* the fingerprints `front` and then other, distinct fingerprints up to the limit
\* of the cache
FilledCache(front) ==
    [n \in 1..WARNING_FINGERPRINT_CACHE_LIMIT |->
        [key |-> IF n <= Len(front) THEN front[n] ELSE OtherFingerprint(n), ts |-> 0]]

LimiterFronts == {<<>>, <<FpEmpty>>, <<FpA>>}

\* OpenClawConfig, the fields resolveWarningPolicy reads:
\*   messages.suppressToolErrors, messages.toolWarnings.{enabled, target, to,
\*   execOnly, fallbackToUserChat, dedupeWindowMs}, agents.defaults.heartbeat.{target, to}
Config(suppress, enabled, target, to, execOnly, fallback, window) ==
    [suppressToolErrors |-> suppress, enabled |-> enabled, target |-> target, to |-> to,
     execOnly |-> execOnly, fallbackToUserChat |-> fallback, dedupeWindowMs |-> window,
     hbTarget |-> <<>>, hbTo |-> <<>>]

\* Values of process.env.OPENCLAW_TOOL_WARNINGS_ENABLED
EnvsTruthy ==
    {<< <<49>> >>,                          \* "1"
     << <<32, 84, 82, 85, 69, 32>> >>,      \* " TRUE "
     << <<121, 101, 115>> >>,               \* "yes"
     << <<79, 110>> >>}                     \* "On"
EnvsFalsy ==
    {<< <<48>> >>,                          \* "0"
     << <<70, 97, 108, 115, 101>> >>,       \* "False"
     << <<110, 111, 9>> >>,                 \* "no\t"
     << <<79, 102, 102>> >>}                \* "Off"
EnvsUnset ==
    {<<>>,                                  \* not set
     << <<>> >>,                            \* ""
     << <<32>> >>,                          \* " "
     << <<109, 97, 121, 98, 101>> >>,       \* "maybe"
     << <<116, 32, 114, 117, 101>> >>}      \* "t rue"
Envs == EnvsTruthy \cup EnvsFalsy \cup EnvsUnset

RouteTelegram == << <<StrTelegramPadded>>, <<StrDest>> >>
RouteNone == << <<>>, <<>> >>

\* The (cfg, env) pairs of the routing specification: every routing option with
\* routing enabled by configuration, the legacy path with and without suppression,
\* and every way of enabling or disabling routing
RoutingInputs ==
    {<<Config(s, <<TRUE>>, r[1], r[2], x, f, <<500>>), <<>> >> :
        s \in {<<>>, <<TRUE>>}, r \in {RouteNone, RouteTelegram},
        x \in {<<>>, <<FALSE>>}, f \in {<<>>, <<FALSE>>}}
    \cup
    {<<Config(s, e, RouteTelegram[1], RouteTelegram[2], <<>>, <<>>, <<500>>), <<>> >> :
        s \in {<<FALSE>>, <<TRUE>>}, e \in {<<>>, <<FALSE>>}}
    \cup
    {<<Config(<<>>, e, RouteTelegram[1], RouteTelegram[2], <<>>, <<FALSE>>, <<500>>), env>> :
        e \in {<<>>, <<TRUE>>, <<FALSE>>}, env \in Envs}

StrSlackMixed == <<83, 108, 97, 99, 107>>                    \* "Slack"
StrSlack == <<115, 108, 97, 99, 107>>                         \* "slack"
StrHeartbeatDest == <<32, 104, 98, 49, 32>>                 \* " hb1 "

\* The configurations of the route specification: routing enabled, every
\* combination of a tool-warning target and destination (absent, usable, not
\* routable, empty or blank) with a heartbeat target and destination, and
\* execOnly on and off
RouteConfigs ==
    {[Config(<<>>, <<TRUE>>, t, d, x, <<>>, <<500>>) EXCEPT !.hbTarget = ht, !.hbTo = hd] :
        t \in {<<>>, <<StrTelegramPadded>>, <<StrWebchat>>, << <<>> >>},
        d \in {<<>>, <<StrDest>>, <<TextBlank>>},
        ht \in {<<>>, <<StrSlackMixed>>, <<StrWebchat>>},
        hd \in {<<>>, <<StrHeartbeatDest>>},
        x \in {<<>>, <<FALSE>>}}

\* The inputs of the specification of concurrent invocations: routing enabled,
\* with a route for every warning or without a route
ConcurrentConfigs ==
    {Config(<<>>, <<TRUE>>, RouteTelegram[1], RouteTelegram[2], <<FALSE>>, <<>>, <<500>>),
     Config(<<>>, <<TRUE>>, <<>>, <<>>, <<>>, <<>>, <<500>>)}
ConcurrentWarningLists ==
    SeqsUpTo({Warning(StrExec, TextX, FpA, FALSE), Warning(StrWrite, TextY, FpB, TRUE)},
             MaxWarnings)

\* The configurations of the limiter specification: the default window without a
\* route, and the shortest window with a route for every warning
LimiterConfigs ==
    {Config(<<>>, <<TRUE>>, <<>>, <<>>, <<>>, <<>>, <<>>),
     Config(<<>>, <<TRUE>>, RouteTelegram[1], RouteTelegram[2], <<FALSE>>, <<>>, <<500>>)}

\* The instants at which the clock is read: around the shortest window (1000 ms)
\* and around the age at which the sweep of the prune drops an entry
Instants == {0, 1000}
LimiterInstants ==
    {0, 999, 1000,
     DEFAULT_WARNING_DEDUPE_WINDOW_MS * 6, DEFAULT_WARNING_DEDUPE_WINDOW_MS * 6 + 1}

\* The argument of buildEmbeddedRunPayloads, the fields it reads:
\* config.messages.suppressToolErrors is suppressToolErrors
Params(assistantTexts, toolMetas, lastAssistant, lastToolError, suppressToolErrors, provider, verboseLevel, reasoningLevel, toolResultFormat, inlineToolResultsAllowed) ==
    [assistantTexts |-> assistantTexts, toolMetas |-> toolMetas,
     lastAssistant |-> lastAssistant, lastToolError |-> lastToolError,
     suppressToolErrors |-> suppressToolErrors, provider |-> provider,
     verboseLevel |-> verboseLevel, reasoningLevel |-> reasoningLevel,
     toolResultFormat |-> toolResultFormat,
     inlineToolResultsAllowed |-> inlineToolResultsAllowed]

NoParams == Params(<<>>, <<>>, <<>>, <<>>, <<>>, <<>>, "off", "off", "plain", FALSE)

LastToolError(toolName, meta, error, mutatingAction, actionFingerprint) ==
    [toolName |-> toolName, meta |-> meta, error |-> error,
     mutatingAction |-> mutatingAction, actionFingerprint |-> actionFingerprint]

StrSessionStatus == <<115, 101, 115, 115, 105, 111, 110, 95, 115, 116, 97, 116, 117, 115>>    \* "session_status"
StrExecutor == <<101, 120, 101, 99, 117, 116, 111, 114>>               \* "executor"
ErrTabNotFound == <<116, 97, 98, 32, 110, 111, 116, 32, 102, 111, 117, 110, 100>>       \* "tab not found"
ErrModelRequired == <<77, 111, 100, 101, 108, 32, 82, 69, 81, 85, 73, 82, 69, 68>>    \* "Model REQUIRED"
ErrNeeds == <<110, 101, 101, 100, 115, 32, 97, 32, 116, 116, 121>>               \* "needs a tty"
ErrInvalid == <<73, 78, 86, 65, 76, 73, 68, 32, 117, 114, 108>>             \* "INVALID url"
ErrMissing == <<97, 114, 103, 32, 77, 105, 115, 115, 105, 110, 103>>             \* "arg Missing"
ErrMustBe == <<120, 32, 109, 117, 115, 116, 32, 98, 101, 32, 115, 101, 116>>            \* "x must be set"
ErrMustHave == <<77, 117, 115, 116, 32, 72, 97, 118, 101, 32, 121>>            \* "Must Have y"
ErrRequires == <<105, 116, 32, 114, 101, 113, 117, 105, 114, 101, 115, 32, 122>>          \* "it requires z"
ErrRequire == <<99, 97, 110, 110, 111, 116, 32, 114, 101, 113, 117, 105, 114, 101>>          \* "cannot require"
ErrFileMissing == <<102, 105, 108, 101, 32, 109, 105, 115, 115, 105, 110, 103>>        \* "file missing"
ErrExit == <<101, 120, 105, 116, 32, 49>>                     \* "exit 1"
MetaFile == <<97, 46, 116, 120, 116>>                     \* "a.txt"
ActionFp == <<97, 102, 49>>                       \* "af1"

StrWriteBarA == <<119, 114, 105, 116, 101, 124, 97>>
MetaAB == <<97, 124, 98>>
MetaB == <<98>>
ErrC == <<99>>
ActionFpOther == <<97, 102, 50>>

\* Tool failures that differ in one or more of toolName, meta, error,
\* mutatingAction and actionFingerprint; every one of them yields a warning
FingerprintToolErrors ==
    {LastToolError(StrExec, <<>>, <<ErrExit>>, <<>>, <<>>),
     LastToolError(StrExec, <<>>, <<ErrExit>>, <<TRUE>>, <<>>),
     LastToolError(StrExec, << <<>> >>, <<ErrExit>>, <<>>, <<>>),
     LastToolError(StrExec, <<>>, <<ErrNeeds>>, <<>>, <<>>),
     LastToolError(StrExec, <<>>, <<ErrExit>>, <<>>, <<ActionFp>>),
     LastToolError(StrWrite, <<MetaFile>>, <<ErrFileMissing>>, <<>>, <<ActionFp>>),
     LastToolError(StrWrite, <<MetaFile>>, <<ErrFileMissing>>, <<>>, <<ActionFpOther>>),
     LastToolError(StrWrite, <<MetaFile>>, <<ErrFileMissing>>, <<>>, << <<>> >>),
     LastToolError(StrWrite, <<MetaFile>>, <<ErrFileMissing>>, <<>>, <<>>),
     LastToolError(StrWrite, <<MetaAB>>, <<ErrC>>, <<>>, <<>>),
     LastToolError(StrWriteBarA, <<MetaB>>, <<ErrC>>, <<TRUE>>, <<>>)}

\* The arguments of the fingerprint specification: a turn without answer that
\* ends with one of the tool failures
FingerprintInputs ==
    {Params(<<>>, <<>>, <<>>, <<e>>, <<>>, <<>>, "off", "off", "plain", FALSE) :
        e \in FingerprintToolErrors}

\* Tool failures of tools that are neither mutating nor exec-like
PlainToolErrors ==
    {LastToolError(StrBrowser, <<>>, <<ErrTabNotFound>>, <<>>, <<>>),
     LastToolError(StrBrowser, <<MetaFile>>, <<ErrTabNotFound>>, <<>>, <<ActionFp>>),
     LastToolError(StrBrowser, <<>>, <<ErrModelRequired>>, <<>>, <<>>),
     LastToolError(StrBrowser, <<>>, <<ErrNeeds>>, <<>>, <<>>),
     LastToolError(StrBrowser, <<>>, <<ErrInvalid>>, <<>>, <<>>),
     LastToolError(StrBrowser, <<>>, <<ErrMissing>>, <<>>, <<>>),
     LastToolError(StrBrowser, <<>>, <<ErrMustBe>>, <<>>, <<>>),
     LastToolError(StrBrowser, <<>>, <<ErrMustHave>>, <<>>, <<>>),
     LastToolError(StrBrowser, <<>>, <<ErrRequires>>, <<>>, <<>>),
     LastToolError(StrBrowser, <<>>, <<ErrRequire>>, <<>>, <<>>),
     LastToolError(StrBrowser, <<>>, <<>>, <<>>, <<>>),
     LastToolError(StrExecutor, <<>>, <<ErrExit>>, <<>>, <<>>),
     LastToolError(StrWrite, <<>>, <<ErrTabNotFound>>, <<FALSE>>, <<>>),
     LastToolError(StrSessionStatus, <<>>, <<ErrModelRequired>>, <<FALSE>>, <<>>)}

\* Tool failures of mutating or exec-like tools
CriticalToolErrors ==
    {LastToolError(StrExec, <<>>, <<ErrExit>>, <<>>, <<>>),
     LastToolError(StrBashPadded, <<>>, <<ErrNeeds>>, <<>>, <<>>),
     LastToolError(StrWrite, <<>>, <<ErrFileMissing>>, <<>>, <<>>),
     LastToolError(StrBrowser, <<>>, <<ErrTabNotFound>>, <<TRUE>>, <<>>)}

ToolErrors == {<<>>} \cup {<<e>> : e \in PlainToolErrors \cup CriticalToolErrors}

TextAllGood == <<65, 108, 108, 32, 103, 111, 111, 100>>               \* "All good"
TextAudioOnly == StrAudioTag              \* "[[audio_as_voice]]"
TextMedia == <<77, 69, 68, 73, 65, 58, 117, 32, 104, 105>>               \* "MEDIA:u hi"
\* the warning texts of the write and browser failures above, in another layout
TextWriteWarning ==
    <<32, 32>> \o StrToolEmoji \o <<32, 119, 114, 105, 116, 101, 32, 32, 70, 65, 73, 76, 69, 68, 58, 32, 102, 105, 108, 101, 32, 109, 105, 115, 115, 105, 110, 103>>
TextBrowserWarning ==
    StrWarningSign \o StrToolEmoji \o <<32, 66, 114, 111, 119, 115, 101, 114, 32, 102, 97, 105, 108, 101, 100, 58, 32, 116, 97, 98, 32, 110, 111, 116, 32, 102, 111, 117, 110, 100>>
ErrorJson == <<123, 34, 116, 121, 112, 101, 34, 58, 34, 101, 114, 114, 111, 114, 34, 44, 34, 101, 114, 114, 111, 114, 34, 58, 123, 34, 109, 101, 115, 115, 97, 103, 101, 34, 58, 34, 79, 118, 101, 114, 108, 111, 97, 100, 101, 100, 34, 125, 125>>
ErrorJsonPretty == <<123, 32, 34, 116, 121, 112, 101, 34, 58, 32, 34, 101, 114, 114, 111, 114, 34, 44, 10, 32, 34, 101, 114, 114, 111, 114, 34, 58, 32, 123, 34, 109, 101, 115, 115, 97, 103, 101, 34, 58, 34, 79, 118, 101, 114, 108, 111, 97, 100, 101, 100, 34, 125, 32, 125>>
\* an error payload of another provider error than ErrorJson
ErrorJsonOther == <<123, 34, 116, 121, 112, 101, 34, 58, 34, 101, 114, 114, 111, 114, 34, 44, 34, 101, 114, 114, 111, 114, 34, 58, 123, 34, 109, 101, 115, 115, 97, 103, 101, 34, 58, 34, 82, 97, 116, 101, 32, 108, 105, 109, 105, 116, 101, 100, 34, 125, 125>>
\* an error payload cut short
ErrorJsonBroken == <<123, 34, 116, 121, 112, 101, 34, 58, 34, 101, 114, 114, 111, 114, 34, 44, 34, 101, 114, 114, 111, 114, 34, 58>>
ErrBilling == <<66, 105, 108, 108, 105, 110, 103, 58, 32, 110, 111, 32, 99, 114, 101, 100, 105, 116>>      \* "Billing: no credit"
ErrPlain == <<98, 111, 111, 109>>                      \* "boom"

AssistantTextPool ==
    {TextAllGood, SILENT_REPLY_TOKEN, TextBlank, TextAudioOnly, TextMedia,
     TextWriteWarning, TextBrowserWarning, ErrorJsonPretty}

AssistantTextLists == SeqsUpTo(AssistantTextPool, MaxAssistantTexts)

Block(type, text) == [type |-> type, text |-> text]
StrProvider == <<111, 112, 101, 110, 97, 105>>                 \* "openai"

\* <<lastAssistant, provider>>
Turns ==
    {<< <<>>, <<>> >>,
     << <<AssistantMessage("stop", <<>>, <<>>)>>, <<>> >>,
     << <<AssistantMessage("end_turn", <<>>, <<Block("text", <<32, 104, 105, 32>>)>>)>>, <<>> >>,
     << <<AssistantMessage("stop", <<>>,
            <<Block("thinking", <<116>>), Block("text", <<104, 105>>)>>)>>, <<>> >>,
     << <<AssistantMessage("toolUse", <<>>, <<Block("toolCall", <<>>)>>)>>, <<>> >>,
     << <<AssistantMessage("stop", <<>>, <<Block("toolCall", <<>>)>>)>>, <<>> >>,
     << <<AssistantMessage("toolUse", <<>>, <<>>)>>, <<>> >>,
     << <<AssistantMessage("error", <<ErrorJson>>, <<Block("text", ErrorJson)>>)>>, <<>> >>,
     << <<AssistantMessage("error", <<ErrBilling>>, <<>>)>>, <<StrProvider>> >>,
     << <<AssistantMessage("error", <<ErrPlain>>, <<Block("text", ErrPlain)>>)>>, <<>> >>,
     << <<AssistantMessage("error", <<>>, <<>>)>>, <<>> >>,
     << <<AssistantMessage("error", <<>>, <<Block("text", ErrorJson)>>)>>, <<>> >>,
     << <<AssistantMessage("error", <<ErrPlain>>,
            <<Block("thinking", <<116>>), Block("text", <<104, 105>>)>>)>>, <<>> >>,
     << <<AssistantMessage("stop", <<>>, <<Block("text", ErrorJson)>>)>>, <<>> >>}

ToolMeta(toolName, meta) == [toolName |-> toolName, meta |-> meta]
StrRead == <<114, 101, 97, 100>>                       \* "read"

\* <<toolMetas, inlineToolResultsAllowed, verboseLevel>>
InlineOptions ==
    {<< <<ToolMeta(StrRead, <<MetaFile>>)>>, TRUE, "on" >>,
     << <<ToolMeta(StrRead, <<>>), ToolMeta(StrWrite, <<MetaFile>>)>>, TRUE, "full" >>,
     << <<ToolMeta(StrRead, <<MetaFile>>)>>, TRUE, "off" >>,
     << <<ToolMeta(StrRead, <<MetaFile>>)>>, FALSE, "on" >>}

\* Answers that render a provider error, and answers that do not
ErrorTextPool ==
    {ErrorJson, ErrorJsonPretty, ErrorJsonOther, ErrorJsonBroken, StrOverloadedMessage,
     genericErrorText, TextAllGood}

ErrorTextLists == SeqsUpTo(ErrorTextPool, MaxAssistantTexts)

\* The answers given together with the presentation options
PresentationTextLists == {<<>>, <<TextAllGood>>, <<TextMedia, TextAllGood>>}

\* The arguments of the builder specification: every tool failure with every
\* single answer, turn and suppression setting, every list of answers with the
\* tool failures whose warning some answer repeats, a recoverable one and an
\* exec failure, the presentation options with some answers, and the renderings
\* of provider errors with every turn
BuildInputs ==
    {Params(texts, <<>>, turn[1], e, s, turn[2], "off", "off", "plain", FALSE) :
        texts \in SeqsUpTo(AssistantTextPool, 1), turn \in Turns, e \in ToolErrors,
        s \in {<<>>, <<TRUE>>}}
    \cup
    {Params(texts, <<>>, turn[1], e, s, turn[2], "off", "off", "plain", FALSE) :
        texts \in AssistantTextLists, turn \in Turns,
        e \in {<<>>,
               <<LastToolError(StrBrowser, <<>>, <<ErrTabNotFound>>, <<>>, <<>>)>>,
               <<LastToolError(StrBrowser, <<>>, <<ErrModelRequired>>, <<>>, <<>>)>>,
               <<LastToolError(StrWrite, <<>>, <<ErrFileMissing>>, <<>>, <<>>)>>,
               <<LastToolError(StrExec, <<>>, <<ErrExit>>, <<>>, <<>>)>>},
        s \in {<<>>, <<TRUE>>}}
    \cup
    {Params(texts, o[1], turn[1], <<e>>, s, turn[2], o[3], r, f, o[2]) :
        texts \in PresentationTextLists, turn \in Turns,
        e \in {LastToolError(StrBrowser, <<MetaFile>>, <<ErrTabNotFound>>, <<>>, <<>>),
               LastToolError(StrWrite, <<MetaFile>>, <<ErrFileMissing>>, <<>>, <<>>)},
        s \in {<<FALSE>>}, o \in InlineOptions,
        r \in {"off", "on"}, f \in {"plain", "markdown"}}
    \cup
    {Params(texts, <<>>, turn[1], <<>>, <<>>, turn[2], "off", "off", "plain", FALSE) :
        texts \in ErrorTextLists, turn \in Turns}

-----------------------------------------------------------------------------
(* Actions *)

Init ==
    /\ warningFingerprintSeenAt = <<>>
    /\ now = 0
    /\ calls = [c \in CallIds |-> IdleCall]
    /\ started = 0
    /\ lastPassed = [f \in TrackedFingerprints |-> <<>>]
    /\ evictedSince = {}
    /\ buildArgs = NoParams
    /\ rebuildArgs = NoParams
    /\ buildResult = <<>>

\* The loop state `st` becomes the state of the process and of invocation c
Commit(c, call, st) ==
    /\ calls' = [calls EXCEPT ![c] = Settle(call, st)]
    /\ warningFingerprintSeenAt' = st.cache
    /\ lastPassed' = st.lastPassed
    /\ evictedSince' = st.evictedSince
    /\ UNCHANGED <<buildArgs, rebuildArgs, buildResult>>

\* processWarningEvents({ warnings, cfg }) is called with process.env as `env`, and
\* runs to its first await or to its return
Start(c, warnings, cfg, env) ==
    /\ calls[c].pc = "idle"
    /\ LET policy == resolveWarningPolicy(cfg, env)
           call == [IdleCall EXCEPT !.cfg = cfg, !.env = env, !.policy = policy,
                                    !.warnings = warnings]
           st == LoopState(call, warningFingerprintSeenAt, lastPassed, evictedSince)
       IN  IF ~policy.enabled /\ policy.suppressToolErrors
           THEN Commit(c, call, st)
           ELSE Commit(c, call, RunLoop(st, call, 1, Len(warnings), now))
    /\ UNCHANGED now

\* routeReply resolves with { ok }; the invocation runs on to its next await or to
\* its return
RouteReplyResolves(c, ok) ==
    /\ calls[c].pc = "await"
    /\ LET call == calls[c]
           st == AfterRouteReply(
                    LoopState(call, warningFingerprintSeenAt, lastPassed, evictedSince),
                    call, ok)
       IN  Commit(c, call, RunLoop(st, call, call.idx + 1, Len(call.warnings), now))
    /\ UNCHANGED <<now, started>>

\* The caller takes the payloads the invocation returned
Return(c) ==
    /\ calls[c].pc = "done"
    /\ calls' = [calls EXCEPT ![c] = IdleCall]
    /\ UNCHANGED <<warningFingerprintSeenAt, now, started, lastPassed, evictedSince,
                   buildArgs, rebuildArgs, buildResult>>

\* Time passes until instant t
Tick(t) ==
    /\ t > now
    /\ now' = t
    /\ UNCHANGED <<warningFingerprintSeenAt, calls, started, lastPassed, evictedSince,
                   buildArgs, rebuildArgs, buildResult>>

StartRouting ==
    /\ UNCHANGED started
    /\ \E warnings \in WarningLists, input \in RoutingInputs :
           Start(1, warnings, input[1], input[2])

RouteReplyOk == \E c \in CallIds : RouteReplyResolves(c, TRUE)
RouteReplyFails == \E c \in CallIds : RouteReplyResolves(c, FALSE)
Returns == \E c \in CallIds : Return(c)
ClockAdvances == \E t \in Instants : Tick(t)

Next ==
    \/ StartRouting
    \/ RouteReplyOk
    \/ RouteReplyFails
    \/ Returns
    \/ ClockAdvances

Spec == Init /\ [][Next]_vars

StartRoute ==
    /\ UNCHANGED started
    /\ \E w \in WarningPool, cfg \in RouteConfigs : Start(1, <<w>>, cfg, <<>>)

RouteNext ==
    \/ StartRoute
    \/ RouteReplyOk
    \/ RouteReplyFails
    \/ Returns

\* The route specification: one warning per invocation, under every route
\* configuration
RouteSpec == Init /\ [][RouteNext]_vars

\* Either invocation may be called while the other one is suspended
StartConcurrent ==
    /\ UNCHANGED started
    /\ \E c \in CallIds, warnings \in ConcurrentWarningLists, cfg \in ConcurrentConfigs :
           Start(c, warnings, cfg, <<>>)

ConcurrentNext ==
    \/ StartConcurrent
    \/ RouteReplyOk
    \/ RouteReplyFails
    \/ Returns
    \/ ClockAdvances

ConcurrentSpec == Init /\ [][ConcurrentNext]_vars

StartLimiter ==
    /\ started < MaxLimiterCalls
    /\ started' = started + 1
    /\ \E warnings \in LimiterWarningLists, cfg \in LimiterConfigs :
           Start(1, warnings, cfg, <<>>)

LimiterClockAdvances == \E t \in LimiterInstants : Tick(t)

LimiterNext ==
    \/ StartLimiter
    \/ RouteReplyOk
    \/ RouteReplyFails
    \/ Returns
    \/ LimiterClockAdvances

\* The limiter specification starts with the cache empty or filled to its limit
LimiterInit ==
    /\ \E front \in LimiterFronts, filled \in BOOLEAN :
        /\ warningFingerprintSeenAt = IF filled THEN FilledCache(front) ELSE <<>>
        /\ lastPassed = [f \in TrackedFingerprints |->
                            IF filled /\ \E n \in 1..Len(front) : front[n] = f
                            THEN <<0>> ELSE <<>>]
    /\ now = 0
    /\ calls = [c \in CallIds |-> IdleCall]
    /\ started = 0
    /\ evictedSince = {}
    /\ buildArgs = NoParams
    /\ rebuildArgs = NoParams
    /\ buildResult = <<>>

LimiterSpec == LimiterInit /\ [][LimiterNext]_vars

\* Either invocation may be called, at any of the instants of the limiter
\* specification, on a process whose cache starts empty: one more invocation
\* than the limiter specification has, so that a pass, a skip inside its window
\* and a call at the end of the window all happen
StartWindow ==
    /\ started < MaxLimiterCalls + 1
    /\ started' = started + 1
    /\ \E c \in CallIds, warnings \in LimiterWarningLists :
           Start(c, warnings, Config(<<>>, <<TRUE>>, RouteTelegram[1], RouteTelegram[2], <<FALSE>>, <<>>, <<500>>), <<>>)

WindowNext ==
    \/ StartWindow
    \/ RouteReplyOk
    \/ RouteReplyFails
    \/ Returns
    \/ LimiterClockAdvances

WindowSpec == Init /\ [][WindowNext]_vars

\* The runner hands the outcome of a turn to the builder
BuildInit ==
    /\ buildArgs \in BuildInputs
    /\ rebuildArgs = NoParams
    /\ buildResult = <<>>
    /\ warningFingerprintSeenAt = <<>>
    /\ now \in Instants
    /\ calls = [c \in CallIds |-> IdleCall]
    /\ started = 0
    /\ lastPassed = [f \in TrackedFingerprints |-> <<>>]
    /\ evictedSince = {}

\* buildEmbeddedRunPayloads(params) returns
Build ==
    /\ buildResult = <<>>
    /\ buildResult' = <<buildEmbeddedRunPayloads(buildArgs, now)>>
    /\ UNCHANGED <<warningFingerprintSeenAt, now, calls, started, lastPassed,
                   evictedSince, buildArgs, rebuildArgs>>

BuildNext == Build

BuildSpec == BuildInit /\ [][BuildNext]_vars

\* Two turns end with a tool failure each, at any two instants
FingerprintInit ==
    /\ buildArgs \in FingerprintInputs
    /\ rebuildArgs \in FingerprintInputs
    /\ buildResult = <<>>
    /\ warningFingerprintSeenAt = <<>>
    /\ now = 0
    /\ calls = [c \in CallIds |-> IdleCall]
    /\ started = 0
    /\ lastPassed = [f \in TrackedFingerprints |-> <<>>]
    /\ evictedSince = {}

\* buildEmbeddedRunPayloads(params) returns for the second turn
Rebuild ==
    /\ Len(buildResult) = 1
    /\ buildResult' = Append(buildResult, buildEmbeddedRunPayloads(rebuildArgs, now))
    /\ UNCHANGED <<warningFingerprintSeenAt, now, calls, started, lastPassed,
                   evictedSince, buildArgs, rebuildArgs>>

FingerprintNext ==
    \/ Build
    \/ Rebuild
    \/ ClockAdvances

FingerprintSpec == FingerprintInit /\ [][FingerprintNext]_vars

\* The same turn is built twice: as it ended, with its tool failure, and with the
\* tool failure left out
FrameInit ==
    /\ buildArgs \in {p \in BuildInputs : p.lastToolError # <<>>}
    /\ rebuildArgs = [buildArgs EXCEPT !.lastToolError = <<>>]
    /\ buildResult = <<>>
    /\ warningFingerprintSeenAt = <<>>
    /\ now = 0
    /\ calls = [c \in CallIds |-> IdleCall]
    /\ started = 0
    /\ lastPassed = [f \in TrackedFingerprints |-> <<>>]
    /\ evictedSince = {}

FrameNext ==
    \/ Build
    \/ Rebuild

FrameSpec == FrameInit /\ [][FrameNext]_vars

-----------------------------------------------------------------------------
(* Properties *)

\* The log entries of the invocations in progress, as <<invocation, position>>
Entries == {<<c, k>> : c \in CallIds, k \in 1..MaxWarnings}
EntryExists(x) == x[2] <= Len(calls[x[1]].log)
EntryOf(x) == calls[x[1]].log[x[2]]
WarningOf(x) == calls[x[1]].warnings[EntryOf(x).i]
PolicyOf(x) == calls[x[1]].policy
\* the entry is suspended at `await routeReply(...)`
IsPending(x) == calls[x[1]].pc = "await" /\ x[2] = Len(calls[x[1]].log)
\* the warning got past the empty-text and per-invocation checks to the limiter
ReachedLimiter(x) == EntryOf(x).outcome \in {"rateLimited", "processed"}
\* the warning was last processed less than one window ago
RepeatsWithinWindow(x) ==
    /\ EntryOf(x).prevPassed # <<>>
    /\ EntryOf(x).at - EntryOf(x).prevPassed[1] < PolicyOf(x).dedupeWindowMs
\* neither a delivery attempt nor a user-chat payload came of the warning
WasSkipped(x) ==
    /\ EntryOf(x).outcome = "rateLimited"
    /\ ~EntryOf(x).routeAttempted
    /\ ~EntryOf(x).toUser

\* C1 as stated: a warning whose fingerprint was processed less than one window
\* ago is skipped, whatever was processed in between.
C1_SkippedWithinWindow ==
    \A x \in Entries :
        (EntryExists(x) /\ ReachedLimiter(x) /\ RepeatsWithinWindow(x)) => WasSkipped(x)

\* C1 amended: a warning whose fingerprint was processed less than one window ago
\* is skipped, provided the prune of the cache has not evicted the fingerprint's
\* entry in between.
C1_SkippedWithinWindowUnlessEvicted ==
    \A x \in Entries :
        (EntryExists(x) /\ ReachedLimiter(x) /\ RepeatsWithinWindow(x)
            /\ ~EntryOf(x).evicted)
        => WasSkipped(x)

\* A repeat within the window is skipped while the cache is at its limit
C1_Witness ==
    \E x \in Entries :
        /\ EntryExists(x) /\ RepeatsWithinWindow(x) /\ ~EntryOf(x).evicted
        /\ WasSkipped(x)
        /\ EntryOf(x).sizeAfter >= WARNING_FINGERPRINT_CACHE_LIMIT

\* the cache holds a time for the fingerprint that is at least one window old
WindowElapsed(x) ==
    /\ EntryOf(x).lastSeen # <<>>
    /\ EntryOf(x).at - EntryOf(x).lastSeen[1] >= PolicyOf(x).dedupeWindowMs
\* the routing decision of the source, restated over tool names
IsEligible(x) ==
    /\ PolicyOf(x).route # <<>>
    /\ (~PolicyOf(x).execOnly \/ WarningOf(x).toolName \in {StrExec, StrBashPadded})

\* C2: a warning that reaches the limiter one window or more after the recorded
\* time of its fingerprint is processed again (delivery is attempted if it is
\* eligible, otherwise the fallback decision is taken) and the recorded time
\* becomes the current time.
C2_ProcessedAfterWindow ==
    \A x \in Entries :
        (EntryExists(x) /\ ReachedLimiter(x) /\ WindowElapsed(x)) =>
            /\ EntryOf(x).outcome = "processed"
            /\ EntryOf(x).seenAfter = <<EntryOf(x).at>>
            /\ EntryOf(x).routeAttempted = IsEligible(x)
            /\ (~IsEligible(x) => EntryOf(x).toUser = ~PolicyOf(x).suppressToolErrors)

\* A warning is processed again exactly one window after its fingerprint was recorded
C2_Witness ==
    \E x \in Entries :
        /\ EntryExists(x) /\ ReachedLimiter(x) /\ WindowElapsed(x)
        /\ EntryOf(x).at - EntryOf(x).lastSeen[1] = PolicyOf(x).dedupeWindowMs
        /\ EntryOf(x).outcome = "processed"
        /\ EntryOf(x).seenAfter = <<EntryOf(x).at>>

ExecLikeNames == {StrExec, StrBashPadded}

\* C4 as stated: a warning of a mutating or exec-like tool that the limiter lets
\* through is delivered to the warnings channel or becomes a user-chat payload,
\* under every configuration.
C4_MutatingOrExecSurfaced ==
    \A x \in Entries :
        (/\ EntryExists(x) /\ ~IsPending(x)
         /\ EntryOf(x).outcome = "processed"
         /\ (WarningOf(x).isMutating \/ WarningOf(x).toolName \in ExecLikeNames))
        => (EntryOf(x).routed \/ EntryOf(x).toUser)

\* the effective value of `enabled`, from the raw environment value
ExpectedEnabled(cfg, env) ==
    IF env \in EnvsTruthy THEN TRUE
    ELSE IF env \in EnvsFalsy THEN FALSE
    ELSE IF cfg.enabled # <<>> THEN cfg.enabled[1]
    ELSE FALSE

\* C8: routing is enabled by the environment variable when it holds a truthy or
\* falsy token, otherwise by messages.toolWarnings.enabled, otherwise it is off;
\* the routed path runs exactly when the result is true.
C8_EnabledPrecedence ==
    \A c \in CallIds :
        calls[c].pc # "idle" =>
            /\ calls[c].policy.enabled = ExpectedEnabled(calls[c].cfg, calls[c].env)
            /\ \A k \in 1..Len(calls[c].log) :
                /\ calls[c].log[k].outcome = "legacy"
                    => ~ExpectedEnabled(calls[c].cfg, calls[c].env)
                /\ calls[c].log[k].outcome \in {"rateLimited", "processed"}
                    => ExpectedEnabled(calls[c].cfg, calls[c].env)

\* The environment forces the routed path although the configuration disables it
C8_Witness ==
    \E c \in CallIds :
        /\ calls[c].env \in EnvsTruthy
        /\ calls[c].cfg.enabled = <<FALSE>>
        /\ \E k \in 1..Len(calls[c].log) : calls[c].log[k].outcome = "processed"

\* the payloads the log of an invocation accounts for, in order
RECURSIVE PayloadsOf(_, _, _)
PayloadsOf(call, k, acc) ==
    IF k > Len(call.log) THEN acc
    ELSE PayloadsOf(call, k + 1,
            IF call.log[k].toUser
            THEN Append(acc, ErrorPayload(Trim(call.warnings[call.log[k].i].text)))
            ELSE acc)

\* C9: a warning that was eligible for the route and whose delivery reported
\* success is not among the user-chat payloads, whatever fallbackToUserChat and
\* suppressToolErrors are.
C9_DeliveredNotInUserChat ==
    \A c \in CallIds :
        /\ calls[c].userPayloads = PayloadsOf(calls[c], 1, <<>>)
        /\ \A k \in 1..Len(calls[c].log) :
            (calls[c].log[k].routeAttempted /\ calls[c].log[k].routed)
                => ~calls[c].log[k].toUser

\* A warning was delivered while fallbackToUserChat is on, and the invocation
\* returned without it
C9_Witness ==
    \E c \in CallIds :
        /\ calls[c].pc = "done"
        /\ calls[c].policy.fallbackToUserChat
        /\ ~calls[c].policy.suppressToolErrors
        /\ \E k \in 1..Len(calls[c].log) :
            /\ calls[c].log[k].routeAttempted /\ calls[c].log[k].routed
            /\ ErrorPayload(Trim(calls[c].warnings[calls[c].log[k].i].text))
                  \notin {calls[c].userPayloads[j] : j \in 1..Len(calls[c].userPayloads)}

\* delivery of the warning was attempted and reported failure
DeliveryFailed(x) ==
    EntryOf(x).routeAttempted /\ ~EntryOf(x).routed /\ ~IsPending(x)

\* C10: a failed delivery does not end the invocation: the warning becomes a
\* user-chat payload exactly when fallbackToUserChat is on and suppressToolErrors
\* is off, and every later warning of the invocation is processed as usual.
C10_FailedDeliveryNotFatal ==
    \A x \in Entries :
        (EntryExists(x) /\ DeliveryFailed(x)) =>
            /\ EntryOf(x).toUser =
                  (PolicyOf(x).fallbackToUserChat /\ ~PolicyOf(x).suppressToolErrors)
            /\ calls[x[1]].pc = "done" =>
                  Len(calls[x[1]].log) = Len(calls[x[1]].warnings)
            /\ \A y \in Entries :
                (y[1] = x[1] /\ y[2] > x[2] /\ EntryExists(y)
                    /\ EntryOf(y).outcome = "processed")
                => /\ EntryOf(y).routeAttempted = IsEligible(y)
                   /\ (~IsEligible(y) =>
                          EntryOf(y).toUser = ~PolicyOf(y).suppressToolErrors)

\* After a failed delivery a later warning of the same invocation was delivered
C10_Witness ==
    \E x \in Entries, y \in Entries :
        /\ EntryExists(x) /\ DeliveryFailed(x)
        /\ y[1] = x[1] /\ y[2] > x[2] /\ EntryExists(y)
        /\ EntryOf(y).routeAttempted /\ EntryOf(y).routed
        /\ calls[x[1]].pc = "done"

\* buildEmbeddedRunPayloads has returned for a turn with a tool failure
BuiltWithToolError == buildResult # <<>> /\ buildArgs.lastToolError # <<>>
FailedTool == buildArgs.lastToolError[1]
BuiltWarnings == buildResult[1].warnings

\* the failing tool is mutating (the explicit flag first, else by its name) or
\* exec-like, restated over the tool names of the inputs
IsCriticalTool ==
    \/ FailedTool.toolName \in {StrExec, StrBashPadded}
    \/ IF FailedTool.mutatingAction # <<>> THEN FailedTool.mutatingAction[1]
       ELSE FailedTool.toolName \in {StrWrite, StrSessionStatus}

\* the text of the warning for the failing tool
ExpectedWarningText ==
    StrWarningSign
        \o formatToolAggregate(FailedTool.toolName,
              IF FailedTool.meta = <<>> THEN <<>> ELSE <<FailedTool.meta[1]>>,
              buildArgs.toolResultFormat = "markdown")
        \o StrFailed
        \o (IF FailedTool.error = <<>> THEN <<>> ELSE StrColonSpace \o FailedTool.error[1])

\* some accumulated reply item has the text of the warning, under the
\* normalized comparison
WarningDuplicatesReply ==
    LET items == ReplyItems(buildArgs)
        warningText == normalizeTextForComparison(ExpectedWarningText)
    IN  \E n \in 1..Len(items) :
            normalizeTextForComparison(items[n].text) = warningText

\* exactly one warning event, for the failing tool
WarningReturned ==
    /\ Len(BuiltWarnings) = 1
    /\ BuiltWarnings[1].toolName = FailedTool.toolName
    /\ BuiltWarnings[1].text = ExpectedWarningText

\* C5 as stated: for a mutating or exec-like failing tool the builder always
\* returns a warning event, whatever suppressToolErrors, the error text and the
\* accumulated replies are.
C5_CriticalAlwaysWarned ==
    (BuiltWithToolError /\ IsCriticalTool) => WarningReturned

\* C5 amended: for a mutating or exec-like failing tool the builder returns a
\* warning event, whatever suppressToolErrors, the error text and the
\* accumulated replies are, unless the text of the warning equals the text of an
\* accumulated reply item under the normalized comparison; then it returns none.
C5_CriticalWarnedUnlessDuplicate ==
    (BuiltWithToolError /\ IsCriticalTool) =>
        IF WarningDuplicatesReply THEN BuiltWarnings = <<>> ELSE WarningReturned

\* A mutating tool with a recoverable error is warned about although
\* suppressToolErrors is on and the turn has a reply for the user
C5_Witness ==
    /\ BuiltWithToolError /\ IsCriticalTool
    /\ FailedTool.mutatingAction = <<>> /\ FailedTool.toolName = StrWrite
    /\ buildArgs.suppressToolErrors = <<TRUE>>
    /\ FailedTool.error = <<ErrFileMissing>>
    /\ Len(buildResult[1].payloads) > 0
    /\ WarningReturned

\* the errors of the inputs that contain a recoverable keyword
RecoverableErrors ==
    {ErrModelRequired, ErrNeeds, ErrInvalid, ErrMissing, ErrMustBe, ErrMustHave,
     ErrRequires}
HasRecoverableError ==
    FailedTool.error # <<>> /\ FailedTool.error[1] \in RecoverableErrors

LastAssistantHasToolCallBlock ==
    /\ buildArgs.lastAssistant # <<>>
    /\ \E b \in 1..Len(buildArgs.lastAssistant[1].content) :
            buildArgs.lastAssistant[1].content[b].type = "toolCall"
LastAssistantStoppedForToolUse ==
    buildArgs.lastAssistant # <<>> /\ buildArgs.lastAssistant[1].stopReason = "toolUse"

\* "no other user-facing reply" as the specification words it
NoReplyAllThree ==
    /\ Len(ReplyItems(buildArgs)) = 0
    /\ ~LastAssistantHasToolCallBlock
    /\ ~LastAssistantStoppedForToolUse
\* "no other user-facing reply" with the three conditions as alternatives
NoReplyAnyOfThree ==
    \/ Len(ReplyItems(buildArgs)) = 0
    \/ LastAssistantHasToolCallBlock
    \/ LastAssistantStoppedForToolUse

SuppressionOff == buildArgs.suppressToolErrors \in {<<>>, <<FALSE>>}

\* C6 as stated: for a failing tool that is neither mutating nor exec-like a
\* warning is returned only if suppressToolErrors is off, the error has no
\* recoverable keyword and the turn has no other user-facing reply, read in the
\* weakest way: no payload is returned for the user.
C6_PlainWarnedOnlyIf ==
    (BuiltWithToolError /\ ~IsCriticalTool /\ BuiltWarnings # <<>>) =>
        (SuppressionOff /\ ~HasRecoverableError /\ buildResult[1].payloads = <<>>)

\* C6 amended: for a failing tool that is neither mutating nor exec-like a
\* warning is returned only if suppressToolErrors is off, the error has no
\* recoverable keyword, and the turn has no reply item or its last assistant
\* message has a tool-call block or stopped for tool use.  An error with a
\* recoverable keyword never yields a warning.
C6_PlainWarnedOnlyIfNoFinalReply ==
    (BuiltWithToolError /\ ~IsCriticalTool) =>
        /\ BuiltWarnings # <<>> =>
              (SuppressionOff /\ ~HasRecoverableError /\ NoReplyAnyOfThree)
        /\ HasRecoverableError => BuiltWarnings = <<>>

\* A recoverable error of a plain tool yields no warning although nothing else
\* is said to the user and suppression is off
C6_Witness ==
    /\ BuiltWithToolError /\ ~IsCriticalTool
    /\ HasRecoverableError /\ SuppressionOff
    /\ Len(ReplyItems(buildArgs)) = 0 /\ buildResult[1].payloads = <<>>
    /\ BuiltWarnings = <<>>

\* a plain tool, an error without recoverable keyword, suppression off
PlainUnsuppressedFailure ==
    BuiltWithToolError /\ ~IsCriticalTool /\ ~HasRecoverableError /\ SuppressionOff

\* C7 as stated: for a plain tool with a non-recoverable error and suppression
\* off, the warning is returned exactly when there is no reply item and no
\* tool-call block and the stop reason is not toolUse.
C7_NoReplyIffAllThree ==
    PlainUnsuppressedFailure => (BuiltWarnings # <<>> <=> NoReplyAllThree)

\* C7 amended: for a plain tool with a non-recoverable error and suppression
\* off, the turn counts as having no other user-facing reply exactly when there
\* is no reply item or there is a tool-call block or the stop reason is toolUse;
\* the warning is then returned unless its text duplicates a reply item.
C7_NoReplyIffAnyOfThree ==
    PlainUnsuppressedFailure =>
        (WarningReturned <=> (NoReplyAnyOfThree /\ ~WarningDuplicatesReply))
        /\ (BuiltWarnings # <<>> => WarningReturned)

\* A plain tool is warned about although the turn has a reply item, because the
\* last assistant message stopped for tool use
C7_Witness ==
    /\ PlainUnsuppressedFailure
    /\ Len(ReplyItems(buildArgs)) > 0
    /\ LastAssistantStoppedForToolUse /\ ~LastAssistantHasToolCallBlock
    /\ WarningReturned

\* the user-chat payload of the warning of a log entry
PayloadOfEntry(x) == ErrorPayload(Trim(WarningOf(x).text))
\* the payloads the invocation has accumulated, as a set
UserPayloadSet(c) == {calls[c].userPayloads[j] : j \in 1..Len(calls[c].userPayloads)}

\* C11: with routing enabled, a warning that is not eligible for the route (no
\* route resolved, or execOnly and the tool is not exec/bash) is never handed to
\* routeReply, and when it passes the limiter and suppressToolErrors is off it
\* becomes a user-chat payload, whatever fallbackToUserChat is.
C11_IneligibleFallsBack ==
    \A x \in Entries :
        (EntryExists(x) /\ PolicyOf(x).enabled /\ ~IsEligible(x)) =>
            /\ ~EntryOf(x).routeAttempted
            /\ ~EntryOf(x).shouldRoute
            /\ (EntryOf(x).outcome = "processed" /\ ~PolicyOf(x).suppressToolErrors) =>
                  /\ EntryOf(x).toUser
                  /\ PayloadOfEntry(x) \in UserPayloadSet(x[1])

\* A warning of a tool that is not exec-like was returned for user chat although
\* a route is configured and fallbackToUserChat is off
C11_Witness ==
    \E x \in Entries :
        /\ EntryExists(x) /\ PolicyOf(x).enabled /\ ~IsEligible(x)
        /\ PolicyOf(x).route # <<>> /\ PolicyOf(x).execOnly
        /\ ~PolicyOf(x).fallbackToUserChat /\ ~PolicyOf(x).suppressToolErrors
        /\ EntryOf(x).outcome = "processed" /\ ~EntryOf(x).routeAttempted
        /\ calls[x[1]].pc = "done"
        /\ PayloadOfEntry(x) \in UserPayloadSet(x[1])

\* messages.suppressToolErrors of the configuration of invocation c is set
SuppressedByConfig(c) == calls[c].pc # "idle" /\ calls[c].cfg.suppressToolErrors = <<TRUE>>

\* C12: when messages.suppressToolErrors is on, the list of user-chat payloads of
\* processWarningEvents is empty at every point up to its return, with routing
\* disabled and enabled, and whether delivery succeeded, failed or was not
\* attempted.
C12_SuppressedReturnsNothing ==
    \A c \in CallIds :
        SuppressedByConfig(c) =>
            /\ calls[c].userPayloads = <<>>
            /\ \A k \in 1..Len(calls[c].log) : ~calls[c].log[k].toUser
            /\ ~calls[c].policy.enabled => calls[c].log = <<>>

\* Under suppression an invocation returned nothing although the delivery of a
\* warning failed and fallbackToUserChat is on
C12_Witness ==
    \E x \in Entries :
        /\ SuppressedByConfig(x[1]) /\ calls[x[1]].pc = "done"
        /\ EntryExists(x) /\ DeliveryFailed(x)
        /\ PolicyOf(x).enabled /\ PolicyOf(x).fallbackToUserChat
        /\ calls[x[1]].userPayloads = <<>>

\* the positions of the warnings whose trimmed text is not empty and occurs at
\* no earlier position, in increasing order
FirstOccurrences(warnings) ==
    SelectSeq([i \in 1..Len(warnings) |-> i],
        LAMBDA i : /\ Trim(warnings[i].text) # <<>>
                   /\ \A j \in 1..(i - 1) : Trim(warnings[j].text) # Trim(warnings[i].text))

\* one payload { text, isError: true } per distinct trimmed text, in order of
\* first occurrence
DistinctTextPayloads(warnings) ==
    [k \in 1..Len(FirstOccurrences(warnings)) |->
        [text |-> Trim(warnings[FirstOccurrences(warnings)[k]].text), isError |-> TRUE]]

\* invocation c runs with routing disabled and suppressToolErrors off
IsLegacyCall(c) ==
    /\ calls[c].pc # "idle"
    /\ ~ExpectedEnabled(calls[c].cfg, calls[c].env)
    /\ calls[c].cfg.suppressToolErrors \in {<<>>, <<FALSE>>}

\* C13: with routing disabled and suppressToolErrors off, processWarningEvents
\* never calls routeReply and returns exactly one payload { text, isError: true }
\* per distinct non-empty trimmed warning text, in order of first occurrence;
\* fingerprints play no part.
C13_LegacyDistinctTexts ==
    \A c \in CallIds :
        IsLegacyCall(c) =>
            /\ calls[c].pc = "done"
            /\ calls[c].userPayloads = DistinctTextPayloads(calls[c].warnings)
            /\ \A k \in 1..Len(calls[c].log) :
                /\ ~calls[c].log[k].routeAttempted
                /\ calls[c].log[k].outcome \in {"skipEmpty", "skipSeen", "legacy"}

\* Two warnings with different fingerprints and the same text after trimming
\* came back as one payload
C13_Witness ==
    \E c \in CallIds :
        /\ IsLegacyCall(c) /\ calls[c].pc = "done"
        /\ Len(calls[c].warnings) = 2
        /\ calls[c].warnings[1].fingerprint # calls[c].warnings[2].fingerprint
        /\ calls[c].warnings[1].text # calls[c].warnings[2].text
        /\ Trim(calls[c].warnings[1].text) = Trim(calls[c].warnings[2].text)
        /\ calls[c].userPayloads = <<ErrorPayload(TextX)>>

\* buildEmbeddedRunPayloads has returned
Built == buildResult # <<>>
BuiltPayloads == buildResult[1].payloads

\* the last assistant message ended the turn with stop reason error
TurnErrored ==
    buildArgs.lastAssistant # <<>> /\ buildArgs.lastAssistant[1].stopReason = "error"

\* the candidate answer texts: assistantTexts, or else the text of the last
\* assistant message when it has one
CandidateTexts ==
    IF Len(buildArgs.assistantTexts) > 0 THEN buildArgs.assistantTexts
    ELSE IF buildArgs.lastAssistant # <<>>
            /\ extractAssistantText(buildArgs.lastAssistant[1]) # <<>>
    THEN <<extractAssistantText(buildArgs.lastAssistant[1])>>
    ELSE <<>>

\* the text that is left of an answer once its reply directives are taken out
CleanedText(t) == parseReplyDirectives(t).text
\* an answer that has a text to show and is not the silent-reply token
Emittable(t) == CleanedText(t) # <<>> /\ Trim(CleanedText(t)) # SILENT_REPLY_TOKEN
\* the answer is among the returned payloads, as an ordinary payload
EmittedAsAnswer(t) ==
    \E n \in 1..Len(BuiltPayloads) :
        BuiltPayloads[n].text = <<Trim(CleanedText(t))>> /\ ~BuiltPayloads[n].isError

\* the error message of the errored turn, <<>> when it has none
RawErrorOfTurn == Trim(OrElse(buildArgs.lastAssistant[1].errorMessage, <<>>))

\* the text renders the provider error of the turn: it equals, under the
\* normalized comparison, the friendly error text, the generic error sentence,
\* the billing sentence, the raw error message or its rendering for the UI, or it
\* is an error payload with the fingerprint of the raw error message (any error
\* payload when the turn has no error message)
SameErrorRendering(t) ==
    LET n == normalizeTextForComparison(t)
        friendly == formatAssistantErrorText(buildArgs.lastAssistant[1], buildArgs.provider)
    IN  \/ n = normalizeTextForComparison(friendly[1])
        \/ n = normalizeTextForComparison(genericErrorText)
        \/ n = normalizeTextForComparison(BILLING_ERROR_USER_MESSAGE)
        \/ /\ RawErrorOfTurn # <<>>
           /\ \/ n = normalizeTextForComparison(RawErrorOfTurn)
              \/ n = normalizeTextForComparison(formatRawAssistantErrorForUi(RawErrorOfTurn))
        \/ /\ isRawApiErrorPayload(t)
           /\ \/ RawErrorOfTurn = <<>>
              \/ getApiErrorPayloadFingerprint(t) = getApiErrorPayloadFingerprint(RawErrorOfTurn)

\* C14 as stated: a candidate answer text is suppressed exactly when the turn
\* errored and the text renders the provider error of the turn; an error payload
\* with another fingerprint than the raw error message is returned as an
\* ordinary payload.
C14_SuppressedIffSameError ==
    Built =>
        \A k \in 1..Len(CandidateTexts) :
            Emittable(CandidateTexts[k]) =>
                (EmittedAsAnswer(CandidateTexts[k])
                    <=> ~(TurnErrored /\ SameErrorRendering(CandidateTexts[k])))

\* C15 as stated: when the turn did not end in an error (or there is no last
\* assistant message) every candidate answer text that is not blank comes back
\* as a payload.
C15_NotErroredAllEmitted ==
    (Built /\ ~TurnErrored) =>
        \A k \in 1..Len(CandidateTexts) :
            Trim(CandidateTexts[k]) # <<>> =>
                \E n \in 1..Len(BuiltPayloads) :
                    BuiltPayloads[n].text = <<Trim(CleanedText(CandidateTexts[k]))>>

\* C15 amended: when the turn did not end in an error (or there is no last
\* assistant message) no candidate answer text is suppressed: every candidate
\* that has a text left once its reply directives are taken out and is not the
\* silent-reply token comes back as an ordinary payload, also one shaped like
\* an error payload of the provider.
C15_NotErroredNothingSuppressed ==
    (Built /\ ~TurnErrored) =>
        /\ answerTexts(buildArgs) = CandidateTexts
        /\ \A k \in 1..Len(CandidateTexts) :
            Emittable(CandidateTexts[k]) => EmittedAsAnswer(CandidateTexts[k])

\* An answer shaped like an error payload came back as an ordinary payload of a
\* turn that stopped normally
C15_Witness ==
    /\ Built /\ buildArgs.lastAssistant # <<>>
    /\ buildArgs.lastAssistant[1].stopReason = "stop"
    /\ \E k \in 1..Len(CandidateTexts) :
        /\ isRawApiErrorPayload(CandidateTexts[k])
        /\ EmittedAsAnswer(CandidateTexts[k])

\* a text without its white space
Compact(s) == SelectSeq(s, LAMBDA c : ~IsTrimChar(c))

\* the answer is the raw error payload of the errored turn, in any layout: an
\* error payload with the fingerprint of the error message, or any error payload
\* when the turn has no error message
IsRawErrorJson(t) ==
    /\ isRawApiErrorPayload(t)
    /\ \/ RawErrorOfTurn = <<>>
       \/ getApiErrorPayloadFingerprint(t) = getApiErrorPayloadFingerprint(RawErrorOfTurn)

\* the payload of the friendly error text of the errored turn
FriendlyErrorPayload ==
    [text |-> formatAssistantErrorText(buildArgs.lastAssistant[1], buildArgs.provider),
     mediaUrls |-> <<>>, mediaUrl |-> <<>>, isError |-> TRUE, replyToId |-> <<>>,
     replyToTag |-> FALSE, replyToCurrent |-> FALSE, audioAsVoice |-> FALSE]

\* neither inline tool results nor the reasoning are asked for
PlainPresentation ==
    /\ (~buildArgs.inlineToolResultsAllowed \/ buildArgs.verboseLevel = "off"
            \/ buildArgs.toolMetas = <<>>)
    /\ buildArgs.reasoningLevel # "on"

Shown(text, media, isError) == [text |-> text, media |-> media, isError |-> isError]

\* the friendly error text of an errored turn
ShownError ==
    IF TurnErrored
    THEN <<Shown(formatAssistantErrorText(buildArgs.lastAssistant[1], buildArgs.provider)[1],
                 <<>>, TRUE)>>
    ELSE <<>>

\* one summary per entry of toolMetas, in the order of toolMetas, when inline
\* tool results are asked for
ShownToolResults ==
    IF buildArgs.inlineToolResultsAllowed /\ buildArgs.verboseLevel # "off"
    THEN [n \in 1..Len(buildArgs.toolMetas) |->
            Shown(CleanedText(formatToolAggregate(buildArgs.toolMetas[n].toolName,
                                  buildArgs.toolMetas[n].meta,
                                  buildArgs.toolResultFormat = "markdown")),
                  <<>>, FALSE)]
    ELSE <<>>

\* the reasoning of the last assistant message, when it is asked for
ShownReasoning ==
    IF buildArgs.lastAssistant # <<>> /\ buildArgs.reasoningLevel = "on"
    THEN <<Shown(formatReasoningMessage(extractAssistantThinking(buildArgs.lastAssistant[1])),
                 <<>>, FALSE)>>
    ELSE <<>>

\* the candidate answers that are not suppressed, in the order of the candidates
ShownAnswers ==
    LET kept == SelectSeq(CandidateTexts,
                    LAMBDA t : ~shouldSuppressRawErrorText(buildArgs, t))
    IN  [n \in 1..Len(kept) |->
            Shown(CleanedText(kept[n]), parseReplyDirectives(kept[n]).mediaUrls, FALSE)]

\* the four groups in emission order, without the entries that have nothing to
\* show and without the silent-reply token
ExpectedShown ==
    SelectSeq(ShownError \o ShownToolResults \o ShownReasoning \o ShownAnswers,
        LAMBDA s : /\ (Trim(s.text) # <<>> \/ s.media # <<>>)
                   /\ Trim(s.text) # SILENT_REPLY_TOKEN)

\* C17: the payloads come in emission order: the error payload first, then the
\* inline tool results in the order of toolMetas, then the reasoning, then the
\* answers in the order of assistantTexts; the final filter removes payloads
\* without changing the order of the others, and only the first payload can be
\* the error payload.
C17_EmissionOrder ==
    Built =>
        LET expected == ExpectedShown
        IN  /\ Len(BuiltPayloads) = Len(expected)
            /\ \A n \in 1..Len(BuiltPayloads) :
                /\ n <= Len(expected)
                /\ OrElse(BuiltPayloads[n].text, <<>>) = Trim(expected[n].text)
                /\ BuiltPayloads[n].mediaUrls = expected[n].media
                /\ BuiltPayloads[n].isError = expected[n].isError
                /\ BuiltPayloads[n].isError => n = 1

\* An errored turn with two tool results, reasoning and two answers came back as
\* six payloads: error, tool results, reasoning, answers
C17_Witness ==
    /\ Built /\ TurnErrored
    /\ Len(buildArgs.toolMetas) = 2 /\ Len(buildArgs.assistantTexts) = 2
    /\ Len(BuiltPayloads) = 6
    /\ BuiltPayloads[1].isError
    /\ BuiltPayloads[2].text = <<formatToolAggregate(buildArgs.toolMetas[1].toolName, <<>>, FALSE)>>
    /\ SubSeq(BuiltPayloads[4].text[1], 1, Len(StrReasoningPrefix)) = StrReasoningPrefix
    /\ BuiltPayloads[5].mediaUrls # <<>>
    /\ BuiltPayloads[6].text = <<TextAllGood>>

\* C18: every returned payload has a text or media, its text is never blank,
\* and no returned payload has the silent-reply token as its text.
C18_NoEmptyNoSilentPayload ==
    Built =>
        \A n \in 1..Len(BuiltPayloads) :
            /\ \/ BuiltPayloads[n].text # <<>>
               \/ BuiltPayloads[n].mediaUrl # <<>>
               \/ BuiltPayloads[n].mediaUrls # <<>>
            /\ BuiltPayloads[n].text # <<>> => Trim(BuiltPayloads[n].text[1]) # <<>>
            /\ BuiltPayloads[n].text # <<SILENT_REPLY_TOKEN>>

\* The silent-reply token was the answer of an errored turn: the error payload
\* came back without it
C18_Witness ==
    /\ Built /\ TurnErrored
    /\ buildArgs.assistantTexts = <<SILENT_REPLY_TOKEN>>
    /\ Len(ReplyItems(buildArgs)) = 2
    /\ Len(BuiltPayloads) = 1 /\ BuiltPayloads[1].isError

\* both calls of the builder have returned, with one warning each
BothWarned ==
    /\ Len(buildResult) = 2
    /\ Len(buildResult[1].warnings) = 1
    /\ Len(buildResult[2].warnings) = 1
FirstFailure == buildArgs.lastToolError[1]
SecondFailure == rebuildArgs.lastToolError[1]
FirstFingerprint == buildResult[1].warnings[1].fingerprint
SecondFingerprint == buildResult[2].warnings[1].fingerprint

\* the code units of the hexadecimal digits 0-9 and a-f
HexUnits == (48..57) \cup (97..102)

\* toolName|meta|error, an absent meta or error counting as the empty string
JoinedTuple(e) ==
    e.toolName \o <<124>> \o (IF e.meta = <<>> THEN <<>> ELSE e.meta[1])
        \o <<124>> \o (IF e.error = <<>> THEN <<>> ELSE e.error[1])

\* C19: the fingerprint of a warning is 40 hexadecimal digits and a function of
\* (toolName, meta, error, actionFingerprint) only: two calls with the same
\* tuple yield the same fingerprint at whatever time; with an actionFingerprint
\* the fingerprint depends on it alone, without one on toolName|meta|error.
C19_FingerprintDeterministic ==
    BothWarned =>
        /\ Len(FirstFingerprint) = 40
        /\ \A d \in 1..40 : FirstFingerprint[d] \in HexUnits
        /\ (/\ FirstFailure.toolName = SecondFailure.toolName
            /\ FirstFailure.meta = SecondFailure.meta
            /\ FirstFailure.error = SecondFailure.error
            /\ FirstFailure.actionFingerprint = SecondFailure.actionFingerprint)
           => FirstFingerprint = SecondFingerprint
        /\ (/\ FirstFailure.actionFingerprint # <<>>
            /\ FirstFailure.actionFingerprint = SecondFailure.actionFingerprint)
           => FirstFingerprint = SecondFingerprint
        /\ (/\ FirstFailure.actionFingerprint = <<>>
            /\ SecondFailure.actionFingerprint = <<>>
            /\ JoinedTuple(FirstFailure) = JoinedTuple(SecondFailure))
           => FirstFingerprint = SecondFingerprint

\* Two failures of different tools with the same actionFingerprint were warned
\* about at different times with the same fingerprint
C19_Witness ==
    /\ BothWarned
    /\ FirstFailure.actionFingerprint = <<ActionFp>>
    /\ SecondFailure.actionFingerprint = <<ActionFp>>
    /\ FirstFailure.toolName # SecondFailure.toolName
    /\ FirstFailure.meta # SecondFailure.meta
    /\ FirstFailure.error # SecondFailure.error
    /\ buildResult[1].warnings[1].ts # buildResult[2].warnings[1].ts
    /\ FirstFingerprint = SecondFingerprint

\* the emission policy selects the failure: a mutating or exec-like tool, or else
\* suppression off, an error without recoverable keyword and no final reply
PolicySelected ==
    \/ IsCriticalTool
    \/ (SuppressionOff /\ ~HasRecoverableError /\ NoReplyAnyOfThree)

\* C20: a tool failure that the emission policy selected yields no warning event
\* exactly when the text of the warning equals, under the normalized comparison,
\* the text of a reply item accumulated in the same turn; otherwise it yields
\* exactly one warning event, with that text.
C20_DroppedIffDuplicate ==
    (BuiltWithToolError /\ PolicySelected) =>
        /\ BuiltWarnings = <<>> <=> WarningDuplicatesReply
        /\ ~WarningDuplicatesReply => WarningReturned

\* The failure of a mutating tool was selected and dropped, because an answer
\* already says the same in another layout
C20_Witness ==
    /\ BuiltWithToolError /\ PolicySelected
    /\ WarningDuplicatesReply
    /\ LET items == ReplyItems(buildArgs)
       IN  \A n \in 1..Len(items) : items[n].text # ExpectedWarningText
    /\ BuiltWarnings = <<>>

\* the channels of the inputs that the router accepts
RecognizedChannels == {StrTelegram, StrSlack}

\* the tool-warning value when it is set, else the heartbeat value
ConfiguredTarget(cfg) == IF cfg.target # <<>> THEN cfg.target ELSE cfg.hbTarget
ConfiguredDestination(cfg) == IF cfg.to # <<>> THEN cfg.to ELSE cfg.hbTo

\* C21: the route is (channel, to) from the tool-warning target and destination,
\* each falling back to the heartbeat value when unset; it is null exactly when
\* either value is missing, the channel is not a recognized routable channel or
\* the destination is empty after trimming; with a null route no delivery is
\* attempted.
C21_RouteResolution ==
    \A c \in CallIds :
        calls[c].pc # "idle" =>
            LET target == ConfiguredTarget(calls[c].cfg)
                to == ConfiguredDestination(calls[c].cfg)
                route == calls[c].policy.route
            IN  /\ route = <<>> <=>
                    \/ target = <<>>
                    \/ to = <<>>
                    \/ ToLowerCase(Trim(target[1])) \notin RecognizedChannels
                    \/ Trim(to[1]) = <<>>
                /\ route # <<>> =>
                    /\ route[1].channel = ToLowerCase(Trim(target[1]))
                    /\ route[1].to = Trim(to[1])
                /\ route = <<>> =>
                    /\ calls[c].pc # "await"
                    /\ \A k \in 1..Len(calls[c].log) : ~calls[c].log[k].routeAttempted

\* Without a tool-warning target the heartbeat target became the channel, with
\* the tool-warning destination, and a delivery to it was attempted
C21_Witness ==
    \E c \in CallIds :
        /\ calls[c].pc = "await"
        /\ calls[c].cfg.target = <<>>
        /\ calls[c].cfg.hbTarget = <<StrSlackMixed>>
        /\ calls[c].cfg.to = <<StrDest>>
        /\ calls[c].cfg.hbTo = <<StrHeartbeatDest>>
        /\ calls[c].policy.route = <<[channel |-> StrSlack, to |-> StrDest]>>
        /\ calls[c].log[1].routeAttempted

\* the positions of the warnings of invocation c that became user-chat payloads,
\* in input order
UserChatPositions(c) ==
    SelectSeq([i \in 1..Len(calls[c].warnings) |-> i],
        LAMBDA i : \E k \in 1..Len(calls[c].log) :
                        calls[c].log[k].i = i /\ calls[c].log[k].toUser)

\* C22: within one invocation the warnings are taken in input order, a delivery
\* to the route starts only after the previous one has returned, and the
\* user-chat payloads are in input order of their warnings.
C22_SequentialInInputOrder ==
    \A c \in CallIds :
        LET log == calls[c].log
        IN  /\ \A k \in 1..Len(log) :
                /\ log[k].i = k
                /\ k > 1 => log[k - 1].at <= log[k].at
                /\ (log[k].routeAttempted /\ ~log[k].returned) =>
                      (k = Len(log) /\ calls[c].pc = "await")
                /\ (k > 1 /\ log[k].routeAttempted) =>
                      \A j \in 1..(k - 1) : log[j].routeAttempted => log[j].returned
            /\ calls[c].userPayloads =
                  [n \in 1..Len(UserChatPositions(c)) |->
                      ErrorPayload(Trim(calls[c].warnings[UserChatPositions(c)[n]].text))]

\* Two deliveries were attempted one after the other, at different instants, both
\* failed, and the two fallback payloads came back in input order
C22_Witness ==
    \E c \in CallIds :
        /\ calls[c].pc = "done"
        /\ Len(calls[c].log) = 2
        /\ \A k \in 1..2 : /\ calls[c].log[k].routeAttempted
                           /\ calls[c].log[k].returned
                           /\ ~calls[c].log[k].routed
        /\ calls[c].log[1].at < calls[c].log[2].at
        /\ Len(calls[c].userPayloads) = 2
        /\ calls[c].userPayloads[1] # calls[c].userPayloads[2]
        /\ calls[c].userPayloads[1] = ErrorPayload(Trim(calls[c].warnings[1].text))

\* the limiter let the warning through: a delivery was attempted or the
\* fallback decision was taken
WasProcessed(x) == EntryOf(x).outcome = "processed"

\* C23: when two invocations with routing enabled interleave at their awaits and
\* both carry a warning with the same fingerprint within the dedupe window, at
\* most one of them attempts delivery or yields a fallback payload for it; the
\* time of a warning that passes is in the cache before the invocation suspends.
C23_OnePassPerWindowAcrossCalls ==
    /\ \A x \in Entries, y \in Entries :
        (/\ x[1] # y[1] /\ EntryExists(x) /\ EntryExists(y)
         /\ WarningOf(x).fingerprint = WarningOf(y).fingerprint
         /\ WasProcessed(x)
         /\ EntryOf(x).at <= EntryOf(y).at
         /\ EntryOf(y).at - EntryOf(x).at < PolicyOf(y).dedupeWindowMs)
        => /\ ~WasProcessed(y)
           /\ ~EntryOf(y).routeAttempted
           /\ ~EntryOf(y).toUser
    /\ \A x \in Entries :
        (EntryExists(x) /\ IsPending(x)) =>
            LET seen == MapGet(warningFingerprintSeenAt, WarningOf(x).fingerprint)
            IN  seen # <<>> /\ seen[1] >= EntryOf(x).at

\* While one invocation is suspended in the delivery of a warning, the other one
\* ran to its end and skipped the warning with the same fingerprint
C23_Witness ==
    \E x \in Entries, y \in Entries :
        /\ x[1] # y[1] /\ EntryExists(x) /\ EntryExists(y)
        /\ IsPending(x) /\ WasProcessed(x)
        /\ WarningOf(x).fingerprint = WarningOf(y).fingerprint
        /\ calls[y[1]].pc = "done"
        /\ EntryOf(y).outcome = "rateLimited"
        /\ EntryOf(y).at = EntryOf(x).at
        /\ calls[y[1]].userPayloads = <<>>

\* C24 as stated: when the builder returns no payload, the failing tool is
\* neither mutating nor exec-like, its error has no recoverable keyword,
\* suppressToolErrors is off and the last assistant message did not invoke tools,
\* a warning event is returned: only payloads that are returned count as a reply.
C24_WarnedWhenNothingReturned ==
    (/\ PlainUnsuppressedFailure
     /\ BuiltPayloads = <<>>
     /\ ~LastAssistantHasToolCallBlock
     /\ ~LastAssistantStoppedForToolUse)
    => WarningReturned

\* invocation c is called in this step and takes the legacy path
LegacyCallStarts(c) ==
    calls[c].pc = "idle" /\ calls'[c].pc # "idle" /\ ~calls'[c].policy.enabled

\* the cache holds a time for the fingerprint that is less than one window old
InsideWindow(fingerprint, windowMs) ==
    LET seen == MapGet(warningFingerprintSeenAt, fingerprint)
    IN  seen # <<>> /\ now - seen[1] < windowMs

\* C25: an invocation on the legacy path leaves the fingerprint cache as it was
\* and returns its payloads whatever the cache holds, also for a fingerprint
\* inside its dedupe window; a routed invocation is never rate-limited for a
\* fingerprint that only legacy invocations have seen.
C25_LegacyIgnoresCache ==
    /\ [][\A c \in CallIds :
            LegacyCallStarts(c) =>
                /\ warningFingerprintSeenAt' = warningFingerprintSeenAt
                /\ calls'[c].pc = "done"
                /\ calls'[c].userPayloads =
                      IF calls'[c].policy.suppressToolErrors THEN <<>>
                      ELSE DistinctTextPayloads(calls'[c].warnings)]_vars
    /\ [](\A x \in Entries :
            (/\ EntryExists(x) /\ PolicyOf(x).enabled /\ ReachedLimiter(x)
             /\ EntryOf(x).prevPassed = <<>>)
            => EntryOf(x).outcome = "processed")

\* A legacy invocation returned the warning of a fingerprint that a routed
\* invocation had recorded at the same instant, and the cache still holds that
\* record only
C25_Witness ==
    \E c \in CallIds :
        /\ IsLegacyCall(c) /\ calls[c].pc = "done"
        /\ Len(calls[c].warnings) = 1
        /\ InsideWindow(calls[c].warnings[1].fingerprint, calls[c].policy.dedupeWindowMs)
        /\ calls[c].log[1].at = MapGet(warningFingerprintSeenAt,
                                       calls[c].warnings[1].fingerprint)[1]
        /\ Len(warningFingerprintSeenAt) = 1
        /\ calls[c].userPayloads = <<ErrorPayload(Trim(calls[c].warnings[1].text))>>

\* the warning passed the limiter and was shown neither on the route nor in user
\* chat
ShownNowhere(x) ==
    /\ EntryOf(x).outcome = "processed"
    /\ ~IsPending(x)
    /\ ~EntryOf(x).routed
    /\ ~EntryOf(x).toUser

\* C26: the time of a warning that passes the limiter is recorded before the
\* delivery and stays recorded whatever comes of the warning (also when the
\* delivery fails without fallback or suppression drops it), so a repeat of the
\* fingerprint inside the window is skipped.
C26_RecordedWhateverTheOutcome ==
    \A x \in Entries :
        (EntryExists(x) /\ EntryOf(x).outcome = "processed") =>
            /\ EntryOf(x).seenAfter = <<EntryOf(x).at>>
            /\ LET seen == MapGet(warningFingerprintSeenAt, WarningOf(x).fingerprint)
               IN  seen # <<>> /\ seen[1] >= EntryOf(x).at
            /\ \A y \in Entries :
                (/\ y[1] = x[1] /\ y[2] > x[2] /\ EntryExists(y)
                 /\ WarningOf(y).fingerprint = WarningOf(x).fingerprint
                 /\ ReachedLimiter(y)
                 /\ EntryOf(y).at - EntryOf(x).at < PolicyOf(y).dedupeWindowMs)
                => WasSkipped(y)

\* The delivery of a warning failed without fallback, and the next warning of
\* the invocation, with the same fingerprint and another text, was skipped
C26_Witness ==
    \E x \in Entries, y \in Entries :
        /\ y[1] = x[1] /\ y[2] > x[2] /\ EntryExists(y)
        /\ EntryOf(x).routeAttempted /\ EntryOf(x).returned /\ ShownNowhere(x)
        /\ ~PolicyOf(x).suppressToolErrors /\ ~PolicyOf(x).fallbackToUserChat
        /\ WarningOf(y).fingerprint = WarningOf(x).fingerprint
        /\ Trim(WarningOf(y).text) # Trim(WarningOf(x).text)
        /\ WasSkipped(y)
        /\ calls[x[1]].userPayloads = <<>>

\* the fingerprint passed the limiter before, one window or more ago
PassedAWindowAgo(x) ==
    /\ EntryOf(x).prevPassed # <<>>
    /\ EntryOf(x).at - EntryOf(x).prevPassed[1] >= PolicyOf(x).dedupeWindowMs

\* C27: the window is fixed: a warning that the limiter skips leaves the
\* recorded time of its fingerprint as it is, and a warning that arrives one
\* window or more after its fingerprint last passed is emitted again, however
\* many warnings of the fingerprint were skipped in between.
C27_FixedWindow ==
    \A x \in Entries :
        (EntryExists(x) /\ ReachedLimiter(x)) =>
            /\ EntryOf(x).outcome = "rateLimited" =>
                  /\ EntryOf(x).seenAfter = EntryOf(x).lastSeen
                  /\ EntryOf(x).lastSeen # <<>>
            /\ PassedAWindowAgo(x) =>
                  /\ EntryOf(x).outcome = "processed"
                  /\ EntryOf(x).seenAfter = <<EntryOf(x).at>>

\* A fingerprint passed at time 0, a warning with it was skipped before the
\* window was over without moving the recorded time, and the next one, exactly
\* one window after time 0, is emitted
C27_Witness ==
    \E x \in Entries, y \in Entries :
        /\ x[1] # y[1] /\ EntryExists(x) /\ EntryExists(y)
        /\ WarningOf(x).fingerprint = WarningOf(y).fingerprint
        /\ EntryOf(y).outcome = "rateLimited"
        /\ EntryOf(y).prevPassed = <<0>>
        /\ EntryOf(y).at > 0 /\ EntryOf(y).at < PolicyOf(y).dedupeWindowMs
        /\ EntryOf(y).seenAfter = <<0>>
        /\ EntryOf(x).prevPassed = <<0>>
        /\ EntryOf(x).at = PolicyOf(x).dedupeWindowMs
        /\ EntryOf(x).at - EntryOf(y).at < PolicyOf(x).dedupeWindowMs
        /\ EntryOf(x).outcome = "processed"
        /\ EntryOf(x).seenAfter = <<EntryOf(x).at>>

\* the invocation c is called with one warning and that warning passes the limiter
RecordsItsWarning(c) ==
    /\ calls[c].pc = "idle"
    /\ Len(calls'[c].warnings) = 1
    /\ Len(calls'[c].log) = 1
    /\ calls'[c].log[1].outcome = "processed"

\* C28: when the limiter records fingerprint F at the current time and prunes,
\* F is in the cache afterwards with the current time, the entries that went are
\* exactly as many as the cache was over its limit (none while it is within the
\* limit) and none of them is newer than an entry that stayed, and a repeat of F
\* at the same instant is rate-limited.
C28_PruneRemovesOldestKeepsRecorded ==
    [][\A c \in CallIds :
          RecordsItsWarning(c) =>
              LET F == calls'[c].warnings[1].fingerprint
                  after == warningFingerprintSeenAt'
              IN  \A before \in {MapSet(warningFingerprintSeenAt, F, now)} :
                  /\ MapGet(after, F) = <<now>>
                  /\ IF Len(before) <= WARNING_FINGERPRINT_CACHE_LIMIT
                     THEN after = before
                     ELSE \A removed \in {MapKeys(before) \ MapKeys(after)} :
                          /\ Cardinality(removed) =
                                 Len(before) - WARNING_FINGERPRINT_CACHE_LIMIT
                          /\ \A gone \in {j \in 1..Len(before) : before[j].key \in removed} :
                                 \A j \in 1..Len(before) :
                                     before[j].key \notin removed =>
                                         before[gone].ts <= before[j].ts
                  /\ ~shouldEmitByFingerprintRateLimit(
                          after, F, calls'[c].policy.dedupeWindowMs, now).emit]_vars

\* C29: a turn built with its tool failure and built without it returns the
\* same payloads; the warning of the tool failure is in the warnings list only
\* (no payload has its text), that list has at most one event, and it is empty
\* without a tool failure.
C29_PayloadsIndependentOfToolError ==
    (Len(buildResult) = 2 /\ buildArgs.lastToolError # <<>>) =>
        LET withFailure == buildResult[1]
            withoutFailure == buildResult[2]
        IN  /\ withFailure.payloads = withoutFailure.payloads
            /\ Len(withFailure.warnings) <= 1
            /\ withoutFailure.warnings = <<>>
            /\ \A w \in 1..Len(withFailure.warnings), n \in 1..Len(withFailure.payloads) :
                   withFailure.payloads[n].text # <<withFailure.warnings[w].text>>

\* A turn with an answer and a tool failure that is warned about, built with and
\* without the failure
C29_Witness ==
    /\ Len(buildResult) = 2
    /\ buildArgs.lastToolError # <<>>
    /\ rebuildArgs.lastToolError = <<>>
    /\ Len(buildResult[1].warnings) = 1
    /\ buildResult[1].payloads # <<>>
    /\ buildResult[1].payloads = buildResult[2].payloads

=============================================================================
